---- MODULE Spec2Model ----
(***************************************************************************)
(* RvtoolsSALT backend: the DR replica matcher (routes/dr.py), the reload  *)
(* of the SQLite store (utils/db.py, routes/core.py) and the right-sizing  *)
(* finding catalog (app.py, routes/optimization.py) as state machines.     *)
(*                                                                         *)
(* Three specifications share the module:                                  *)
(*   SpecDR      one /api/dr-analysis request over a vInfo table           *)
(*   SpecReload  POST /api/reload requests racing with analysis requests   *)
(*   SpecRS      one right-sizing request over a table snapshot            *)
(* Every specification leaves the other parts' variables untouched.        *)
(***************************************************************************)
EXTENDS Integers, Sequences, FiniteSets, TLC

VARIABLES
    \* ---- DR analysis (routes/dr.py)
    dr_vinfo,            \* the vInfo rows the request read, in table order
    dr_pc,               \* position of the request: "idle", "loop", "done"
    dr_i,                \* position of the iterrows() loop in replica_candidates
    matched_pairs,       \* list built by match_replicas
    unmatched_replicas,  \* list built by match_replicas
    \* ---- the store and its reload (utils/db.py, routes/core.py)
    files_epoch,         \* version (and mtime) of the workbook in DATA_DIR
    db_tables,           \* names of the inventory tables present in rvtools.db
    db_rows,             \* table name -> its rows; a row is the epoch it was read at
    data_cache,          \* data_cache: cache key -> mtime/frame epoch, 0 = no entry
    rl_pc,               \* per reload request: its position in api_reload/init_db
    rl_tables,           \* per reload request: the table names fetched to drop
    rl_xls,              \* per reload request: epoch of the opened pd.ExcelFile
    rl_k,                \* per reload request: next table to drop / sheet to import
    rl_started,          \* number of reload requests received so far
    rd_pc,               \* per analysis request: "idle", "reading", "done", "error"
    rd_kind,             \* per analysis request: the handler serving it
    rd_k,                \* per analysis request: the next table it reads
    rd_snap,             \* per analysis request: table name -> the frame it got
    \* ---- right-sizing (app.py, routes/optimization.py)
    rs_tables,           \* table name -> rows, as the request reads them
    rs_pc,               \* position of the request: "idle", "done"
    rs_endpoint,         \* handler that served it: "none", "app", "routes"
    recommendations,     \* the list the checks appended to, in append order
    rs_response,         \* the 'recommendations' list of the JSON response
    rs_history,          \* earlier requests on these tables: handler, response
    \* ---- one call of a function of the backend on given arguments
    call_args,           \* the function called and its arguments
    call_pc,             \* "ready", "returned", "raised"
    call_result          \* the value returned

drVars == <<dr_vinfo, dr_pc, dr_i, matched_pairs, unmatched_replicas>>

storeVars == <<files_epoch, db_tables, db_rows, data_cache>>

rlVars == <<rl_pc, rl_tables, rl_xls, rl_k, rl_started>>

rdVars == <<rd_pc, rd_kind, rd_k, rd_snap>>

reloadVars == <<storeVars, rlVars, rdVars>>

rsVars ==
    <<rs_tables, rs_pc, rs_endpoint, recommendations, rs_response, rs_history>>

callVars == <<call_args, call_pc, call_result>>

vars == <<drVars, reloadVars, rsVars, callVars>>

\* no function call is being followed
NoCall == [fn |-> "none"]

\* the inventory tables a right-sizing request reads
RSTableNames ==
    {"vInfo", "vHost", "vCPU", "vSnapshot", "vTools", "vMemory", "vNetwork",
     "vPartition", "vHealth"}

\* every table present and without rows
EmptySnapshot == [t \in RSTableNames |-> <<>>]

(***************************************************************************)
(* Text.  A VM name is a tuple of one-character strings, so that lower(),  *)
(* `in` and str.replace() are computed, not assumed.                       *)
(***************************************************************************)

UpperLetters == <<"A", "B", "C", "D", "E", "F", "G", "H", "I", "J", "K", "L", "M",
                 "N", "O", "P", "Q", "R", "S", "T", "U", "V", "W", "X", "Y", "Z">>

LowerLetters == <<"a", "b", "c", "d", "e", "f", "g", "h", "i", "j", "k", "l", "m",
                 "n", "o", "p", "q", "r", "s", "t", "u", "v", "w", "x", "y", "z">>

LowerOf ==
    [c \in {UpperLetters[k] : k \in 1..Len(UpperLetters)} |->
        LowerLetters[CHOOSE k \in 1..Len(UpperLetters) : UpperLetters[k] = c]]

UpperOf ==
    [c \in {LowerLetters[k] : k \in 1..Len(LowerLetters)} |->
        UpperLetters[CHOOSE k \in 1..Len(LowerLetters) : LowerLetters[k] = c]]

\* str.lower() on one character
LowerChar(c) == IF c \in DOMAIN LowerOf THEN LowerOf[c] ELSE c

\* str.upper() on one character
UpperChar(c) == IF c \in DOMAIN UpperOf THEN UpperOf[c] ELSE c

\* str.upper()
Upper(s) == [k \in 1..Len(s) |-> UpperChar(s[k])]

\* str.lower()
Lower(s) == [k \in 1..Len(s) |-> LowerChar(s[k])]

\* s.startswith(p)
StartsWith(s, p) == Len(p) <= Len(s) /\ SubSeq(s, 1, Len(p)) = p

\* p in s   (substring test)
Contains(s, p) == \E k \in 0..(Len(s) - Len(p)) : SubSeq(s, k + 1, k + Len(p)) = p

\* s.replace(p, ''): every non-overlapping occurrence, scanning from the left
RECURSIVE StrRemove(_, _)
StrRemove(s, p) ==
    IF s = <<>> THEN <<>>
    ELSE IF StartsWith(s, p) THEN StrRemove(SubSeq(s, Len(p) + 1, Len(s)), p)
    ELSE <<Head(s)>> \o StrRemove(Tail(s), p)

(***************************************************************************)
(* routes/dr.py                                                            *)
(***************************************************************************)

REPLICA_PATTERNS ==
    << <<"_","d","r">>,
       <<"_","r","e","p","l","i","c","a">>,
       <<"_","r","e","p">>,
       <<"-","d","r">>,
       <<"-","r","e","p","l","i","c","a">>,
       <<"-","r","e","p">>,
       <<"_","b","a","c","k","u","p">>,
       <<"-","b","a","c","k","u","p">> >>

\* a loop that goes on through the list after a pattern matched
RECURSIVE BaseNameEvery(_, _)
BaseNameEvery(name, k) ==
    IF k > Len(REPLICA_PATTERNS) THEN name
    ELSE BaseNameEvery(StrRemove(name, REPLICA_PATTERNS[k]), k + 1)

\* the loop of get_base_name from pattern k on
RECURSIVE BaseNameFrom(_, _)
BaseNameFrom(name, k) ==
    IF k > Len(REPLICA_PATTERNS) THEN name
    ELSE IF Contains(name, REPLICA_PATTERNS[k]) THEN StrRemove(name, REPLICA_PATTERNS[k])
    ELSE BaseNameFrom(name, k + 1)

get_base_name(vm_name) == BaseNameFrom(Lower(vm_name), 1)

\* any(p in name.lower() for p in REPLICA_PATTERNS)
has_replica_pattern(vm_name) ==
    \E k \in 1..Len(REPLICA_PATTERNS) : Contains(Lower(vm_name), REPLICA_PATTERNS[k])

\* ---- the inputs: bounded vInfo tables -----------------------------------

MaxVMs == 3

VMNames ==
    { <<"a","p","p">>,
      <<"A","p","p">>,
      <<"a","p","p","-","d","r">>,
      <<"a","p","p","_","r","e","p">> }

PowerStates == {"poweredOn", "poweredOff", "suspended"}

Datacenters == {"A", "B"}

\* a cell without a value (NULL in the store, None/NaN in the frame)
NullCell == "(null)"

Clusters == {"c1", NullCell}

\* the Cluster cell is read only from production rows (create_pair_dict); the
\* other rows carry a cluster name
DRRows ==
    {r \in [VM : VMNames, Powerstate : PowerStates, Datacenter : Datacenters,
            Cluster : Clusters] :
        r.Powerstate # "poweredOn" => r.Cluster # NullCell}

\* the vInfo tables of n rows
DRTables(n) == [1..n -> DRRows]

\* indices of the rows of t whose Powerstate is state, in table order
\* (the boolean mask vinfo[vinfo['Powerstate'] == state])
RowsWithPower(t, state) ==
    SelectSeq([k \in 1..Len(t) |-> k], LAMBDA k : t[k].Powerstate = state)

\* vinfo[vinfo['Powerstate'] == 'poweredOn'], as row indices
production_vms == RowsWithPower(dr_vinfo, "poweredOn")

\* vinfo[vinfo['Powerstate'] == 'poweredOff'], as row indices
replica_candidates == RowsWithPower(dr_vinfo, "poweredOff")

\* the production rows (indices) whose BaseName is base, in table order
ProdGroup(base) ==
    SelectSeq(production_vms, LAMBDA k : get_base_name(dr_vinfo[k].VM) = base)

\* first() of one column of a group: the first value that is not null, and
\* null when the group has none
FirstValue(g, column) ==
    LET filled == SelectSeq(g, LAMBDA k : dr_vinfo[k][column] # NullCell)
    IN  IF filled = <<>> THEN NullCell ELSE dr_vinfo[filled[1]][column]

\* groupby('BaseName').first(): per column the first value of the group.
\* row is the index of the row that supplied the VM column.
prod_by_base(base) ==
    LET g == ProdGroup(base)
    IN  [VM |-> FirstValue(g, "VM"), Datacenter |-> FirstValue(g, "Datacenter"),
         Cluster |-> FirstValue(g, "Cluster"), row |-> g[1]]

\* replica['Datacenter'] != prod['Datacenter']
DatacenterDiffersAlways(a, b) == TRUE

DatacenterDiffers(a, b) == a # b

\* the same-name lookup finding nothing
same_name_prod_none(replica) == <<>>

\* production_vms[(VM.str.lower() == replica VM.lower()) & (Datacenter != replica Datacenter)]
same_name_prod(replica) ==
    SelectSeq(production_vms,
              LAMBDA k : /\ Lower(dr_vinfo[k].VM) = Lower(replica.VM)
                         /\ DatacenterDiffers(dr_vinfo[k].Datacenter, replica.Datacenter))

\* create_pair_dict; prod_row and replica_row record the rows the members came from
create_pair_dict(prod, prodRow, replica, replicaRow) ==
    [production_vm |-> prod.VM, production_dc |-> prod.Datacenter,
     production_cluster |-> prod.Cluster,
     replica_vm |-> replica.VM, replica_dc |-> replica.Datacenter,
     prod_row |-> prodRow, replica_row |-> replicaRow]

\* api_dr_analysis up to the call of match_replicas, and its first lines
dr_begin ==
    /\ dr_pc = "idle"
    /\ dr_pc' = "loop"
    /\ dr_i' = 1
    /\ matched_pairs' = <<>>
    /\ unmatched_replicas' = <<>>
    /\ UNCHANGED <<dr_vinfo, reloadVars, rsVars, callVars>>

\* an iteration that goes on to the second lookup after pairing by base name
match_replicas_step_through ==
    /\ dr_pc = "loop"
    /\ dr_i <= Len(replica_candidates)
    /\ LET r == replica_candidates[dr_i]
           replica == dr_vinfo[r]
           base_name == get_base_name(replica.VM)
           first == IF /\ ProdGroup(base_name) # <<>>
                       /\ DatacenterDiffers(replica.Datacenter,
                                            prod_by_base(base_name).Datacenter)
                    THEN <<create_pair_dict(prod_by_base(base_name),
                                            prod_by_base(base_name).row, replica, r)>>
                    ELSE <<>>
           same == same_name_prod(replica)
       IN  IF Len(same) > 0
           THEN /\ matched_pairs' = matched_pairs \o first
                       \o <<create_pair_dict(dr_vinfo[same[1]], same[1], replica, r)>>
                /\ UNCHANGED unmatched_replicas
           ELSE /\ matched_pairs' = matched_pairs \o first
                /\ unmatched_replicas' =
                      IF has_replica_pattern(replica.VM)
                      THEN Append(unmatched_replicas,
                              [vm |-> replica.VM, datacenter |-> replica.Datacenter,
                               row |-> r])
                      ELSE unmatched_replicas
    /\ dr_i' = dr_i + 1
    /\ UNCHANGED <<dr_vinfo, dr_pc, reloadVars, rsVars, callVars>>

\* one iteration of `for _, replica in replica_candidates.iterrows()`
match_replicas_step ==
    /\ dr_pc = "loop"
    /\ dr_i <= Len(replica_candidates)
    /\ LET r == replica_candidates[dr_i]
           replica == dr_vinfo[r]
           base_name == get_base_name(replica.VM)
           inLookup == ProdGroup(base_name) # <<>>
           same == same_name_prod(replica)
       IN  IF inLookup /\ DatacenterDiffers(replica.Datacenter, prod_by_base(base_name).Datacenter)
           THEN /\ matched_pairs' = Append(matched_pairs,
                       create_pair_dict(prod_by_base(base_name), prod_by_base(base_name).row,
                                        replica, r))
                /\ UNCHANGED unmatched_replicas
           ELSE IF Len(same) > 0
           THEN /\ matched_pairs' = Append(matched_pairs,
                       create_pair_dict(dr_vinfo[same[1]], same[1], replica, r))
                /\ UNCHANGED unmatched_replicas
           ELSE IF has_replica_pattern(replica.VM)
           THEN /\ unmatched_replicas' = Append(unmatched_replicas,
                       [vm |-> replica.VM, datacenter |-> replica.Datacenter, row |-> r])
                /\ UNCHANGED matched_pairs
           ELSE UNCHANGED <<matched_pairs, unmatched_replicas>>
    /\ dr_i' = dr_i + 1
    /\ UNCHANGED <<dr_vinfo, dr_pc, reloadVars, rsVars, callVars>>

\* the loop is exhausted: return matched_pairs, unmatched_replicas
match_replicas_return ==
    /\ dr_pc = "loop"
    /\ dr_i > Len(replica_candidates)
    /\ dr_pc' = "done"
    /\ UNCHANGED <<dr_vinfo, dr_i, matched_pairs, unmatched_replicas, reloadVars, rsVars, callVars>>

NextDR ==
    \/ dr_begin
    \/ match_replicas_step
    \/ match_replicas_return

(***************************************************************************)
(* utils/db.py, routes/core.py: the store, its reload, and the requests    *)
(* that read it.  The workbook has the sheets Sheets, one row each; a row  *)
(* is represented by the epoch (version of the workbook) it was read at.   *)
(***************************************************************************)

Sheets == <<"vInfo", "vHost", "vHealth">>

SheetNames == {Sheets[k] : k \in 1..Len(Sheets)}

MaxEpoch == 2

Reloaders == {"r1", "r2"}

Requests == {"q1"}

MaxReloads == 2

\* the key of the one frame load_excel_data is asked for (api_stats: vInfo)
CacheKeys == {"vInfo"}

\* the handlers of the analysis requests
Handlers == {"api_rightsizing", "api_hosts_clusters", "api_dr_analysis", "api_risks"}

\* the tables a handler reads, in the order of its reads
ReadOrder(kind) ==
    CASE kind = "api_rightsizing" -> <<"vInfo", "vHost", "vHealth">>
      [] kind = "api_hosts_clusters" -> <<"vInfo", "vHost">>
      [] kind = "api_dr_analysis" -> <<"vInfo", "vHost">>
      [] kind = "api_risks" -> <<"vInfo", "vHost", "vHealth">>

\* handlers that read through get_combined_data (a missing table is an empty
\* frame); the others run pd.read_sql_query on their own connection, where a
\* missing table raises and the handler answers 500
ReadsThroughCombined(kind) == kind \in {"api_rightsizing", "api_hosts_clusters"}

NotRead == [read |-> FALSE, present |-> FALSE, rows |-> <<>>]

\* the operator edits or replaces the workbook in DATA_DIR
file_change ==
    /\ files_epoch < MaxEpoch
    /\ files_epoch' = files_epoch + 1
    /\ UNCHANGED <<db_tables, db_rows, data_cache, rlVars, rdVars, drVars, rsVars, callVars>>

\* load_excel_data(filename, 'vInfo'), as api_stats calls it
load_excel_data(c) ==
    /\ data_cache[c] # files_epoch
    /\ data_cache' = [data_cache EXCEPT ![c] = files_epoch]
    /\ UNCHANGED <<files_epoch, db_tables, db_rows, rlVars, rdVars, drVars, rsVars, callVars>>

\* the tables rvtools.db can hold: the sheets and the notes
StoreTables == Sheets \o <<"custom_notes">>

\* a listing of sqlite_master without the NOT IN clause
TablesPresentAll == SelectSeq(StoreTables, LAMBDA t : t \in db_tables)

\* the tables init_db lists for dropping, in sheet order:
\* ... WHERE type='table' AND name NOT IN ('custom_notes', 'sqlite_sequence')
TablesPresent ==
    SelectSeq(StoreTables,
              LAMBDA t : t \in db_tables /\ t \notin {"custom_notes", "sqlite_sequence"})

\* api_reload: clear_cache(); with rebuild_db, enter init_db and fetch the
\* names of the tables to drop (db.py:32-34)
api_reload(r, rebuild_db) ==
    /\ rl_pc[r] = "idle"
    /\ rl_started < MaxReloads
    /\ rl_started' = rl_started + 1
    /\ data_cache' = [c \in CacheKeys |-> 0]
    /\ IF rebuild_db
       THEN /\ rl_pc' = [rl_pc EXCEPT ![r] = "drop"]
            /\ rl_tables' = [rl_tables EXCEPT ![r] = TablesPresent]
            /\ rl_k' = [rl_k EXCEPT ![r] = 1]
       ELSE UNCHANGED <<rl_pc, rl_tables, rl_k>>
    /\ UNCHANGED <<files_epoch, db_tables, db_rows, rl_xls, rdVars, drVars, rsVars, callVars>>

\* init_db: one DROP TABLE IF EXISTS of the loop at db.py:35-36
init_db_drop(r) ==
    /\ rl_pc[r] = "drop"
    /\ rl_k[r] <= Len(rl_tables[r])
    /\ LET t == rl_tables[r][rl_k[r]]
       IN  /\ db_tables' = db_tables \ {t}
           /\ db_rows' = [db_rows EXCEPT ![t] = <<>>]
    /\ rl_k' = [rl_k EXCEPT ![r] = rl_k[r] + 1]
    /\ UNCHANGED <<files_epoch, data_cache, rl_pc, rl_tables, rl_xls, rl_started,
                   rdVars, drVars, rsVars, callVars>>

\* init_db: all drops done; commit, glob the files and open the workbook
init_db_open(r) ==
    /\ rl_pc[r] = "drop"
    /\ rl_k[r] > Len(rl_tables[r])
    /\ rl_pc' = [rl_pc EXCEPT ![r] = "import"]
    /\ rl_xls' = [rl_xls EXCEPT ![r] = files_epoch]
    /\ rl_k' = [rl_k EXCEPT ![r] = 1]
    /\ UNCHANGED <<storeVars, rl_tables, rl_started, rdVars, drVars, rsVars, callVars>>

\* init_db: one sheet of the loop at db.py:46-73: df.to_sql(..., if_exists='append')
init_db_sheet(r) ==
    /\ rl_pc[r] = "import"
    /\ rl_k[r] <= Len(Sheets)
    /\ LET t == Sheets[rl_k[r]]
       IN  /\ db_tables' = db_tables \cup {t}
           /\ db_rows' = [db_rows EXCEPT ![t] = Append(db_rows[t], rl_xls[r])]
    /\ rl_k' = [rl_k EXCEPT ![r] = rl_k[r] + 1]
    /\ UNCHANGED <<files_epoch, data_cache, rl_pc, rl_tables, rl_xls, rl_started,
                   rdVars, drVars, rsVars, callVars>>

\* init_db: custom_notes is created if missing, commit, close; api_reload answers
init_db_finish(r) ==
    /\ rl_pc[r] = "import"
    /\ rl_k[r] > Len(Sheets)
    /\ rl_pc' = [rl_pc EXCEPT ![r] = "idle"]
    /\ rl_tables' = [rl_tables EXCEPT ![r] = <<>>]
    /\ rl_xls' = [rl_xls EXCEPT ![r] = 0]
    /\ rl_k' = [rl_k EXCEPT ![r] = 0]
    /\ UNCHANGED <<storeVars, rl_started, rdVars, drVars, rsVars, callVars>>

\* an analysis request arrives
request_begin(q, kind) ==
    /\ rd_pc[q] = "idle"
    /\ rd_pc' = [rd_pc EXCEPT ![q] = "reading"]
    /\ rd_kind' = [rd_kind EXCEPT ![q] = kind]
    /\ rd_k' = [rd_k EXCEPT ![q] = 1]
    /\ rd_snap' = [rd_snap EXCEPT ![q] = [t \in SheetNames |-> NotRead]]
    /\ UNCHANGED <<storeVars, rlVars, drVars, rsVars, callVars>>

\* the request reads its next table: get_combined_data (db.py:128-144) or
\* pd.read_sql_query on the handler's connection; every read is a statement
\* of its own and sees the store as it is at that moment
request_read(q) ==
    /\ rd_pc[q] = "reading"
    /\ LET t == ReadOrder(rd_kind[q])[rd_k[q]]
           last == rd_k[q] = Len(ReadOrder(rd_kind[q]))
       IN  IF t \in db_tables \/ ReadsThroughCombined(rd_kind[q])
           THEN /\ rd_snap' = [rd_snap EXCEPT ![q][t] =
                        [read |-> TRUE, present |-> t \in db_tables, rows |-> db_rows[t]]]
                /\ rd_k' = [rd_k EXCEPT ![q] = rd_k[q] + 1]
                /\ rd_pc' = [rd_pc EXCEPT ![q] = IF last THEN "done" ELSE "reading"]
           ELSE /\ rd_pc' = [rd_pc EXCEPT ![q] = "error"]
                /\ UNCHANGED <<rd_k, rd_snap>>
    /\ UNCHANGED <<rd_kind, storeVars, rlVars, drVars, rsVars, callVars>>

\* the response (computed in memory from the frames read) is sent
request_end(q) ==
    /\ rd_pc[q] \in {"done", "error"}
    /\ rd_pc' = [rd_pc EXCEPT ![q] = "idle"]
    /\ rd_k' = [rd_k EXCEPT ![q] = 0]
    /\ rd_snap' = [rd_snap EXCEPT ![q] = [t \in SheetNames |-> NotRead]]
    /\ UNCHANGED <<rd_kind, storeVars, rlVars, drVars, rsVars, callVars>>

NextReload ==
    \/ file_change
    \/ \E c \in CacheKeys : load_excel_data(c)
    \/ \E r \in Reloaders, rebuild_db \in BOOLEAN : api_reload(r, rebuild_db)
    \/ \E r \in Reloaders : init_db_drop(r)
    \/ \E r \in Reloaders : init_db_open(r)
    \/ \E r \in Reloaders : init_db_sheet(r)
    \/ \E r \in Reloaders : init_db_finish(r)
    \/ \E q \in Requests, kind \in Handlers : request_begin(q, kind)
    \/ \E q \in Requests : request_read(q)
    \/ \E q \in Requests : request_end(q)

\* the state after `init_db(); app.run(...)`: epoch 1 of the workbook is
\* loaded, no request is being served
InitReload ==
    /\ dr_vinfo = <<>>
    /\ dr_pc = "idle"
    /\ dr_i = 0
    /\ matched_pairs = <<>>
    /\ unmatched_replicas = <<>>
    /\ files_epoch = 1
    /\ db_tables = SheetNames
    /\ db_rows = [t \in SheetNames |-> <<1>>]
    /\ data_cache = [c \in CacheKeys |-> 0]
    /\ rl_pc = [r \in Reloaders |-> "idle"]
    /\ rl_tables = [r \in Reloaders |-> <<>>]
    /\ rl_xls = [r \in Reloaders |-> 0]
    /\ rl_k = [r \in Reloaders |-> 0]
    /\ rl_started = 0
    /\ rd_pc = [q \in Requests |-> "idle"]
    /\ rd_kind = [q \in Requests |-> "api_rightsizing"]
    /\ rd_k = [q \in Requests |-> 0]
    /\ rd_snap = [q \in Requests |-> [t \in SheetNames |-> NotRead]]
    /\ rs_tables = EmptySnapshot
    /\ rs_pc = "idle"
    /\ rs_endpoint = "none"
    /\ recommendations = <<>>
    /\ rs_response = <<>>
    /\ rs_history = <<>>
    /\ call_args = NoCall
    /\ call_pc = "ready"
    /\ call_result = <<>>

SpecReload == InitReload /\ [][NextReload]_vars

\* a DR request is about to be served from a store holding some vInfo table;
\* no reload is running
InitDR ==
    /\ \E n \in 0..MaxVMs : dr_vinfo \in DRTables(n)
    /\ dr_pc = "idle"
    /\ dr_i = 0
    /\ matched_pairs = <<>>
    /\ unmatched_replicas = <<>>
    /\ files_epoch = 1
    /\ db_tables = SheetNames
    /\ db_rows = [t \in SheetNames |-> <<1>>]
    /\ data_cache = [c \in CacheKeys |-> 0]
    /\ rl_pc = [r \in Reloaders |-> "idle"]
    /\ rl_tables = [r \in Reloaders |-> <<>>]
    /\ rl_xls = [r \in Reloaders |-> 0]
    /\ rl_k = [r \in Reloaders |-> 0]
    /\ rl_started = 0
    /\ rd_pc = [q \in Requests |-> "idle"]
    /\ rd_kind = [q \in Requests |-> "api_rightsizing"]
    /\ rd_k = [q \in Requests |-> 0]
    /\ rd_snap = [q \in Requests |-> [t \in SheetNames |-> NotRead]]
    /\ rs_tables = EmptySnapshot
    /\ rs_pc = "idle"
    /\ rs_endpoint = "none"
    /\ recommendations = <<>>
    /\ rs_response = <<>>
    /\ rs_history = <<>>
    /\ call_args = NoCall
    /\ call_pc = "ready"
    /\ call_result = <<>>

SpecDR == InitDR /\ [][NextDR]_vars

(***************************************************************************)
(* Right-sizing: the tables one request reads.                             *)
(*                                                                         *)
(* The sheets carry the columns RVTools writes: every per-VM sheet has VM  *)
(* and Datacenter, vCPU also Powerstate, CPUs and Host, copied from the VM *)
(* record the row belongs to.  A row may also belong to a VM that is not   *)
(* in vInfo.  vInfo has no 'HW version' column and only supported OS       *)
(* labels, vCPU has no 'Max' and no 'Limit' column, vMemory no 'Limit';    *)
(* vCD, vFloppy and vDatastore hold no rows.                               *)
(***************************************************************************)

MaxRSVMs == 2

\* rows of vInfo and of the other sheets together
MaxRSRows == 3

N_web01 == <<"w", "e", "b", "0", "1">>

N_redis_dc01 == <<"r", "e", "d", "i", "s", "-", "d", "c", "0", "1">>

N_gone01 == <<"g", "o", "n", "e", "0", "1">>

N_esx01 == <<"e", "s", "x", "0", "1">>

RSNames == {N_web01, N_redis_dc01}

RSPowerStates == {"poweredOn", "poweredOff"}

\* CPUs, 'Total disk capacity MiB' and 'Provisioned MiB' of a VM record
RSProfiles ==
    { [CPUs |-> 1, DiskMiB |-> 128, ProvisionedMiB |-> 128],
      [CPUs |-> 5, DiskMiB |-> 51200, ProvisionedMiB |-> 409600] }

RSVInfoRows ==
    { [VM |-> n, Powerstate |-> p, Datacenter |-> d, Host |-> N_esx01,
       CPUs |-> z.CPUs, DiskMiB |-> z.DiskMiB,
       ProvisionedMiB |-> z.ProvisionedMiB] :
         n \in RSNames, p \in RSPowerStates, d \in Datacenters, z \in RSProfiles }

\* vInfo tables; a VM name occurs at most once per datacenter
RSVInfoTables ==
    { t \in UNION {[1..n -> RSVInfoRows] : n \in 0..MaxRSVMs} :
        \A j, k \in 1..Len(t) :
            (t[j].VM = t[k].VM /\ t[j].Datacenter = t[k].Datacenter) => j = k }

\* vHost: no row, or the one host all VMs run on
RSVHostTables ==
    { <<>>,
      << [Host |-> N_esx01, Speed |-> 2000, CPU_Model |-> <<"I", "n", "t", "e", "l", " ", "X", "e", "o", "n">>,
          Cores |-> 1] >>,
      << [Host |-> N_esx01, Speed |-> 2400, CPU_Model |-> <<"A", "M", "D", " ", "E", "P", "Y", "C">>,
          Cores |-> 1] >> }

S_toolsOk == <<"t", "o", "o", "l", "s", "O", "k">>

S_toolsOld == <<"t", "o", "o", "l", "s", "O", "l", "d">>

A_E1000 == <<"E", "1", "0", "0", "0">>

A_Vmxnet3 == <<"V", "m", "x", "n", "e", "t", "3">>

M_zombie == <<"Z", "o", "m", "b", "i", "e", " ", "v", "m", "d", "k">>

M_other == <<"l", "o", "w", " ", "s", "p", "a", "c", "e">>

\* the VM records a row of another sheet can belong to: those of vInfo and
\* one VM that vInfo does not list
RSOwners(vinfo) ==
    { [VM |-> vinfo[k].VM, Datacenter |-> vinfo[k].Datacenter,
       Powerstate |-> vinfo[k].Powerstate, CPUs |-> vinfo[k].CPUs] :
         k \in 1..Len(vinfo) }
    \cup { [VM |-> N_gone01, Datacenter |-> "A", Powerstate |-> "poweredOn",
            CPUs |-> 5] }

\* the rows of the other sheets, each tagged with its sheet
RSAuxRows(vinfo) ==
    { [tab |-> "vCPU",
       row |-> [VM |-> o.VM, Datacenter |-> o.Datacenter,
                Powerstate |-> o.Powerstate, CPUs |-> o.CPUs,
                Host |-> N_esx01, Overall |-> mhz]] :
         o \in RSOwners(vinfo), mhz \in {100, 9000} }
    \cup
    { [tab |-> "vSnapshot",
       row |-> [VM |-> o.VM, Datacenter |-> o.Datacenter,
                SizeMiB |-> sn[1], AgeDays |-> sn[2]]] :
         o \in RSOwners(vinfo), sn \in {<<1024, 30>>, <<30720, 3>>} }
    \cup
    { [tab |-> "vTools",
       row |-> [VM |-> o.VM, Datacenter |-> o.Datacenter, Status |-> st]] :
         o \in RSOwners(vinfo), st \in {S_toolsOk, S_toolsOld} }
    \cup
    { [tab |-> "vMemory",
       row |-> [VM |-> o.VM, Datacenter |-> o.Datacenter,
                Ballooned |-> m[1], Swapped |-> m[2]]] :
         o \in RSOwners(vinfo), m \in {<<0, 0>>, <<100, 100>>} }
    \cup
    { [tab |-> "vNetwork",
       row |-> [VM |-> o.VM, Datacenter |-> o.Datacenter, Adapter |-> ad]] :
         o \in RSOwners(vinfo), ad \in {A_E1000, A_Vmxnet3} }
    \cup
    { [tab |-> "vPartition",
       row |-> [VM |-> o.VM, ConsumedMiB |-> used]] :
         o \in RSOwners(vinfo), used \in {1024, 204800} }
    \cup
    { [tab |-> "vHealth", row |-> [Message |-> msg]] :
         msg \in {M_zombie, M_other} }

\* the rows of one sheet, in sheet order
RECURSIVE RowsOfSheet(_, _)
RowsOfSheet(aux, tab) ==
    IF aux = <<>> THEN <<>>
    ELSE IF Head(aux).tab = tab
         THEN <<Head(aux).row>> \o RowsOfSheet(Tail(aux), tab)
         ELSE RowsOfSheet(Tail(aux), tab)

RSSnapshot(vinfo, vhost, aux) ==
    [t \in RSTableNames |->
        CASE t = "vInfo" -> vinfo
          [] t = "vHost" -> vhost
          [] OTHER -> RowsOfSheet(aux, t)]

\* the rows of the other sheets in workbook order, MaxRSRows rows in all
RSAuxLists(vinfo) ==
    UNION {[1..n -> RSAuxRows(vinfo)] : n \in 0..(MaxRSRows - Len(vinfo))}

(***************************************************************************)
(* Right-sizing: findings and arithmetic shared by both handlers.          *)
(***************************************************************************)

\* potential_savings is a number of GB or of vCPUs; it is kept in units of
\* 1/SavingsUnit so that round(x, 2), MiB/1024 and vCPU counts are all exact
SavingsUnit == 102400

\* an integer number of vCPUs as potential_savings
SavingsCount(n) == n * SavingsUnit

\* h/100 GB as potential_savings
SavingsHundredths(h) == h * (SavingsUnit \div 100)

\* mib/1024 GB as potential_savings
SavingsMiB(mib) == mib * (SavingsUnit \div 1024)

\* round(mib / 1024, 2), in hundredths: Python rounds an exact tie to even
Round2GB(mib) ==
    LET q == (mib * 100) \div 1024
        r == (mib * 100) % 1024
    IN  IF r * 2 < 1024 THEN q
        ELSE IF r * 2 > 1024 THEN q + 1
        ELSE IF q % 2 = 0 THEN q ELSE q + 1

Max2(a, b) == IF a >= b THEN a ELSE b

RECURSIVE SeqSum(_)
SeqSum(s) == IF s = <<>> THEN 0 ELSE Head(s) + SeqSum(Tail(s))

\* list.extend() over a list of lists
RECURSIVE Flatten(_)
Flatten(ss) == IF ss = <<>> THEN <<>> ELSE Head(ss) \o Flatten(Tail(ss))

RECURSIVE Repeat(_, _)
Repeat(s, n) == IF n = 0 THEN <<>> ELSE s \o Repeat(s, n - 1)

\* a dict key the check did not set
NoKey == "(unset)"

\* one recommendation dict; seq is the position at which it was appended
Finding(vm, type, severity, savings, resource_type, datacenter) ==
    [vm |-> vm, type |-> type, severity |-> severity,
     potential_savings |-> savings, resource_type |-> resource_type,
     datacenter |-> datacenter, seq |-> 0]

Appended(recs) == [k \in 1..Len(recs) |-> [recs[k] EXCEPT !.seq = k]]

\* rows a left merge on 'VM' with vInfo makes of one row of another sheet
MergeCopies(vinfo, vm) ==
    Max2(1, Cardinality({k \in 1..Len(vinfo) : vinfo[k].VM = vm}))

\* vinfo[vinfo['Powerstate'] == 'poweredOn']['VM']
PoweredOnNames(vinfo) ==
    {vinfo[k].VM : k \in {j \in 1..Len(vinfo) : vinfo[j].Powerstate = "poweredOn"}}

\* str.contains(p, case=False)
ContainsNoCase(s, p) == Contains(Lower(s), Lower(p))

\* 'AMD' in cpu_model or 'EPYC' in cpu_model, cpu_model upper-cased
IsAMD(cpu_model) ==
    Contains(Upper(cpu_model), <<"A", "M", "D">>) \/ Contains(Upper(cpu_model), <<"E", "P", "Y", "C">>)

\* str.contains('toolsOk|guestToolsRunning', case=False)
ToolsRunning(status) ==
    \/ ContainsNoCase(status, <<"t", "o", "o", "l", "s", "O", "k">>)
    \/ ContainsNoCase(status, <<"g", "u", "e", "s", "t", "T", "o", "o", "l", "s", "R", "u", "n", "n", "i", "n", "g">>)

\* str.contains('E1000|Vlance|Flexible', case=False)
IsLegacyAdapter(adapter) ==
    \/ ContainsNoCase(adapter, <<"E", "1", "0", "0", "0">>)
    \/ ContainsNoCase(adapter, <<"V", "l", "a", "n", "c", "e">>)
    \/ ContainsNoCase(adapter, <<"F", "l", "e", "x", "i", "b", "l", "e">>)

IsDigit(c) == c \in {"0", "1", "2", "3", "4", "5", "6", "7", "8", "9"}

\* str.contains('redis', case=False)
IsRedisName(vm) == ContainsNoCase(vm, <<"r", "e", "d", "i", "s">>)

\* str.contains(r'(-dc-|dc\d+|domain)', case=False, regex=True)
IsDomainControllerName(vm) ==
    LET l == Lower(vm)
    IN  \/ Contains(l, <<"-", "d", "c", "-">>)
        \/ \E k \in 1..(Len(l) - 2) :
              l[k] = "d" /\ l[k + 1] = "c" /\ IsDigit(l[k + 2])
        \/ Contains(l, <<"d", "o", "m", "a", "i", "n">>)

\* Message LIKE '%Zombie%' OR Message LIKE '%zombie%'
IsZombieMessage(msg) == ContainsNoCase(msg, <<"z", "o", "m", "b", "i", "e">>)

\* snapshot date < now - timedelta(days): the snapshot is older than `days`
OlderThan(age_days, days) == age_days > days

(***************************************************************************)
(* Thresholds of config.py (the file is not part of the sources; the       *)
(* values are the defaults the specification document gives or implies).   *)
(***************************************************************************)

POWERED_OFF_DISK_MIN_GB == 5

CPU_UNDERUTIL_MIN_VCPU_CHECK == 2

CPU_UNDERUTIL_MAX_USAGE_PCT == 20

CPU_UNDERUTIL_MIN_VCPU_RECOMMEND == 4

\* a fraction, as <<numerator, denominator>>
CPU_UNDERUTIL_MIN_REDUCTION_FRACTION == <<1, 2>>

\* a fraction, as <<numerator, denominator>>
SNAPSHOT_HEAVY_DISK_RATIO == <<1, 2>>

SNAPSHOT_OLD_DAYS == 7

STORAGE_OVERPROVISION_RATIO == 3

STORAGE_OVERPROVISION_MIN_PROVISIONED_GB == 100

(***************************************************************************)
(* app.py, /api/reports/rightsizing: the checks in the order they append.  *)
(***************************************************************************)

\* 1.1 powered-off VMs holding disk
app_powered_off_disk(tb) ==
    Flatten([k \in 1..Len(tb.vInfo) |->
        LET vm == tb.vInfo[k]
            disk_gb == Round2GB(vm.DiskMiB)
        IN  IF vm.Powerstate = "poweredOff"
               /\ disk_gb > POWERED_OFF_DISK_MIN_GB * 100
            THEN << Finding(vm.VM, "POWERED_OFF_DISK", "MEDIUM",
                            SavingsHundredths(disk_gb), "DISK_GB", NoKey) >>
            ELSE <<>>])

\* host_cpu_info.get(vm_host, default): speed and efficiency (in percent)
app_host_info(vhost, vm_host) ==
    LET hits == {k \in 1..Len(vhost) : vhost[k].Host = vm_host}
    IN  IF hits = {} THEN [speed |-> 2000, efficiency |-> 100]
        ELSE LET host == vhost[CHOOSE k \in hits : \A j \in hits : j <= k]
             IN  [speed |-> IF host.Speed = 0 THEN 2000 ELSE host.Speed,
                  efficiency |-> IF IsAMD(host.CPU_Model) THEN 115 ELSE 100]

\* `if needed_cpus < current_cpu`
NeedsFewerCPUs(needed_cpus, current_cpu) == needed_cpus < current_cpu

\* 1.2 the body of the loop over powered_on_vcpu, for one merged row
app_cpu_row(vm, vhost) ==
    LET current_cpu == vm.CPUs
        usage_mhz == vm.Overall
        info == app_host_info(vhost, vm.Host)
        \* usage_percent < PCT, with max_capacity = cpus * speed * efficiency
        low == usage_mhz * 100 * 100
                 < CPU_UNDERUTIL_MAX_USAGE_PCT
                     * current_cpu * info.speed * info.efficiency
        usage_based_cpus ==
            Max2(2, ((usage_mhz * 100) \div (info.speed * info.efficiency)) + 1)
        min_recommended ==
            Max2(2, (current_cpu * CPU_UNDERUTIL_MIN_REDUCTION_FRACTION[1])
                       \div CPU_UNDERUTIL_MIN_REDUCTION_FRACTION[2])
        needed_cpus == Max2(usage_based_cpus, min_recommended)
    IN  IF /\ vm.Powerstate = "poweredOn"
           /\ current_cpu > CPU_UNDERUTIL_MIN_VCPU_CHECK
           /\ low
           /\ current_cpu >= CPU_UNDERUTIL_MIN_VCPU_RECOMMEND
           /\ NeedsFewerCPUs(needed_cpus, current_cpu)
        THEN << Finding(vm.VM, "CPU_UNDERUTILIZED", "LOW",
                        SavingsCount(current_cpu - needed_cpus), "vCPU", NoKey) >>
        ELSE <<>>

\* 1.2 CPU underutilisation over vcpu.merge(vinfo[...], on='VM', how='left')
app_cpu_underutilized(tb) ==
    Flatten([k \in 1..Len(tb.vCPU) |->
        Repeat(app_cpu_row(tb.vCPU[k], tb.vHost),
               MergeCopies(tb.vInfo, tb.vCPU[k].VM))])

\* vsnapshot.groupby('VM')['Size MiB (total)'].sum() for one VM name
SnapshotTotalMiB(vsnapshot, vm) ==
    SeqSum([k \in 1..Len(vsnapshot) |->
              IF vsnapshot[k].VM = vm THEN vsnapshot[k].SizeMiB ELSE 0])

\* 1.3.1 snapshots heavy against the disk of the VM
app_consolidate_snapshots(tb) ==
    IF tb.vSnapshot = <<>> THEN <<>>
    ELSE Flatten([k \in 1..Len(tb.vInfo) |->
        LET vm == tb.vInfo[k]
            total == SnapshotTotalMiB(tb.vSnapshot, vm.VM)
        IN  IF /\ total * SNAPSHOT_HEAVY_DISK_RATIO[2]
                    > vm.DiskMiB * SNAPSHOT_HEAVY_DISK_RATIO[1]
               /\ total > 0
            THEN << Finding(vm.VM, "CONSOLIDATE_SNAPSHOTS", "HIGH",
                            SavingsHundredths(Round2GB(total)), "DISK_GB",
                            NoKey) >>
            ELSE <<>>])

\* 1.3.2 snapshots older than SNAPSHOT_OLD_DAYS
app_old_snapshot(tb) ==
    Flatten([k \in 1..Len(tb.vSnapshot) |->
        LET snap == tb.vSnapshot[k]
        IN  IF OlderThan(snap.AgeDays, SNAPSHOT_OLD_DAYS)
            THEN << Finding(snap.VM, "OLD_SNAPSHOT", "HIGH", 0, "Performance",
                            NoKey) >>
            ELSE <<>>])

\* 1.4 Redis VMs with more than 2 vCPUs
app_redis(tb) ==
    Flatten([k \in 1..Len(tb.vInfo) |->
        LET vm == tb.vInfo[k]
        IN  IF IsRedisName(vm.VM) /\ vm.CPUs > 2
            THEN << Finding(vm.VM, "APP_OPTIMIZATION", "MEDIUM",
                            SavingsCount(vm.CPUs - 2), "vCPU", NoKey) >>
            ELSE <<>>])

\* 1.5 domain controllers with more than 4 vCPUs
app_domain_controller(tb) ==
    Flatten([k \in 1..Len(tb.vInfo) |->
        LET vm == tb.vInfo[k]
        IN  IF IsDomainControllerName(vm.VM) /\ vm.CPUs > 4
            THEN << Finding(vm.VM, "APP_OPTIMIZATION", "MEDIUM",
                            SavingsCount(vm.CPUs - 4), "vCPU", NoKey) >>
            ELSE <<>>])

\* 2.1 VMware Tools not running, for VM names that are powered on
app_vm_tools(tb) ==
    Flatten([k \in 1..Len(tb.vTools) |->
        LET vm == tb.vTools[k]
        IN  IF ~ToolsRunning(vm.Status) /\ vm.VM \in PoweredOnNames(tb.vInfo)
            THEN << Finding(vm.VM, "VM_TOOLS", "HIGH", 0, "Health", NoKey) >>
            ELSE <<>>])

\* 2.3 odd vCPU count
app_numa_alignment(tb) ==
    Flatten([k \in 1..Len(tb.vInfo) |->
        LET vm == tb.vInfo[k]
        IN  IF vm.CPUs % 2 # 0 /\ vm.CPUs > 1
            THEN << Finding(vm.VM, "NUMA_ALIGNMENT", "LOW", 0, "Performance",
                            NoKey) >>
            ELSE <<>>])

\* 2.4 legacy network adapters
app_legacy_nic(tb) ==
    Flatten([k \in 1..Len(tb.vNetwork) |->
        LET vm == tb.vNetwork[k]
        IN  IF IsLegacyAdapter(vm.Adapter)
            THEN << Finding(vm.VM, "LEGACY_NIC", "LOW", 0, "Performance",
                            NoKey) >>
            ELSE <<>>])

\* 3.1 ballooned memory, for VM names that are powered on
app_memory_balloon(tb) ==
    Flatten([k \in 1..Len(tb.vMemory) |->
        LET vm == tb.vMemory[k]
        IN  IF vm.Ballooned > 0 /\ vm.VM \in PoweredOnNames(tb.vInfo)
            THEN << Finding(vm.VM, "MEMORY_BALLOON", "CRITICAL", 0,
                            "Performance", NoKey) >>
            ELSE <<>>])

\* 3.1 swapped memory, for VM names that are powered on
app_memory_swap(tb) ==
    Flatten([k \in 1..Len(tb.vMemory) |->
        LET vm == tb.vMemory[k]
        IN  IF vm.Swapped > 0 /\ vm.VM \in PoweredOnNames(tb.vInfo)
            THEN << Finding(vm.VM, "MEMORY_SWAP", "CRITICAL", 0,
                            "Performance", NoKey) >>
            ELSE <<>>])

\* vcpu.groupby('Host')['CPUs'].sum() for one host
HostVCPUs(vcpu, host_name) ==
    SeqSum([k \in 1..Len(vcpu) |->
              IF vcpu[k].Host = host_name THEN vcpu[k].CPUs ELSE 0])

\* 3.2 vCPU : physical core ratio of each host
app_host_cpu_overcommit(tb) ==
    IF tb.vHost = <<>> \/ tb.vCPU = <<>> THEN <<>>
    ELSE Flatten([k \in 1..Len(tb.vHost) |->
        LET host == tb.vHost[k]
            pCores == IF host.Cores = 0 THEN 1 ELSE host.Cores
            total_vCPUs == HostVCPUs(tb.vCPU, host.Host)
            warn_threshold == IF IsAMD(host.CPU_Model) THEN 8 ELSE 6
            critical_threshold == IF IsAMD(host.CPU_Model) THEN 10 ELSE 8
        IN  IF pCores > 0 /\ total_vCPUs > 0
               /\ total_vCPUs > warn_threshold * pCores
            THEN << Finding(host.Host, "HOST_CPU_OVERCOMMIT",
                            IF total_vCPUs > critical_threshold * pCores
                            THEN "CRITICAL" ELSE "HIGH",
                            0, "Capacity", NoKey) >>
            ELSE <<>>])

\* vpartition.groupby('VM')[consumed_col].sum() for one VM name
ConsumedTotalMiB(vpartition, vm) ==
    SeqSum([k \in 1..Len(vpartition) |->
              IF vpartition[k].VM = vm THEN vpartition[k].ConsumedMiB ELSE 0])

\* 3.6 provisioned far above consumed
app_storage_overprovisioned(tb) ==
    IF tb.vPartition = <<>> \/ tb.vInfo = <<>> THEN <<>>
    ELSE Flatten([k \in 1..Len(tb.vInfo) |->
        LET vm == tb.vInfo[k]
            provisioned == vm.ProvisionedMiB
            consumed == ConsumedTotalMiB(tb.vPartition, vm.VM)
        IN  IF /\ consumed > 0 /\ provisioned > 0
               /\ provisioned > STORAGE_OVERPROVISION_RATIO * consumed
               /\ provisioned > STORAGE_OVERPROVISION_MIN_PROVISIONED_GB * 1024
            THEN << Finding(vm.VM, "STORAGE_OVERPROVISIONED", "LOW",
                            SavingsMiB(provisioned - consumed), "DISK_GB",
                            NoKey) >>
            ELSE <<>>])

\* requests served over one table snapshot
MaxRSRequests == 2

\* a request can be served: the first, or a further one after a response
CanServe ==
    \/ rs_pc = "idle"
    \/ rs_pc = "done" /\ Len(rs_history) + 1 < MaxRSRequests

\* the responses sent so far, the one just sent included
Served ==
    IF rs_pc = "done"
    THEN Append(rs_history, [endpoint |-> rs_endpoint, response |-> rs_response])
    ELSE rs_history

\* the list of the request before is appended to instead
FreshListKept(previous) == previous

\* `recommendations = []`: the list of a request starts empty, whatever the
\* list of the request before held
FreshList(previous) == <<>>

\* the recommendations list when the checks are through
app_recommendations(tb) ==
    Appended(FreshList(recommendations) \o Flatten(<<
        app_powered_off_disk(tb),
        app_cpu_underutilized(tb),
        app_consolidate_snapshots(tb),
        app_old_snapshot(tb),
        app_redis(tb),
        app_domain_controller(tb),
        app_vm_tools(tb),
        app_numa_alignment(tb),
        app_legacy_nic(tb),
        app_memory_balloon(tb),
        app_memory_swap(tb),
        app_host_cpu_overcommit(tb),
        app_storage_overprovisioned(tb) >>))

compliance_types ==
    {"EOL_OS", "OLD_HW_VERSION", "VM_TOOLS", "OLD_SNAPSHOT", "LEGACY_NIC",
     "CONSOLIDATE_SNAPSHOTS", "CPU_LIMIT", "RAM_LIMIT", "ZOMBIE_RESOURCE",
     "NUMA_ALIGNMENT", "MEMORY_BALLOON", "MEMORY_SWAP", "HOST_CPU_OVERCOMMIT",
     "DATASTORE_LOW_SPACE", "DATASTORE_OVERCOMMIT", "FLOPPY_CONNECTED",
     "STORAGE_OVERPROVISIONED"}

\* the condition of the filtered_recommendations comprehension
IsKept(r) == r.potential_savings > 0 \/ r.type \in compliance_types

filtered_recommendations(recs) == SelectSeq(recs, IsKept)

\* {'CRITICAL': 0, 'HIGH': 1, 'MEDIUM': 2, 'LOW': 3}.get(severity, 4)
SeverityRank(severity) ==
    CASE severity = "CRITICAL" -> 0
      [] severity = "HIGH" -> 1
      [] severity = "MEDIUM" -> 2
      [] severity = "LOW" -> 3
      [] OTHER -> 4

\* the sort key of a is strictly before the sort key of b
KeyBefore(a, b) ==
    \/ SeverityRank(a.severity) < SeverityRank(b.severity)
    \/ /\ SeverityRank(a.severity) = SeverityRank(b.severity)
       /\ a.potential_savings > b.potential_savings

\* a sort that puts a later element ahead of the earlier ones of equal key
RECURSIVE SortByKeyReversing(_)
SortByKeyReversing(recs) ==
    IF recs = <<>> THEN <<>>
    ELSE LET sorted == SortByKeyReversing(SubSeq(recs, 1, Len(recs) - 1))
             x == recs[Len(recs)]
             p == Cardinality({k \in 1..Len(sorted) : KeyBefore(sorted[k], x)})
         IN  SubSeq(sorted, 1, p) \o <<x>> \o SubSeq(sorted, p + 1, Len(sorted))

\* list.sort(key=...): stable, equal keys keep their order
RECURSIVE SortByKey(_)
SortByKey(recs) ==
    IF recs = <<>> THEN <<>>
    ELSE LET sorted == SortByKey(SubSeq(recs, 1, Len(recs) - 1))
             x == recs[Len(recs)]
             p == Cardinality({k \in 1..Len(sorted) : ~KeyBefore(x, sorted[k])})
         IN  SubSeq(sorted, 1, p) \o <<x>> \o SubSeq(sorted, p + 1, Len(sorted))

\* the loop over cleaned_recommendations: datacenter from the first vInfo row
\* of that name, '-' when there is none
FillContext(rec, vinfo) ==
    LET rows == {k \in 1..Len(vinfo) : vinfo[k].VM = rec.vm}
    IN  IF rec.datacenter # NoKey /\ rec.datacenter # "-" THEN rec
        ELSE IF rows = {} THEN [rec EXCEPT !.datacenter = "-"]
        ELSE [rec EXCEPT !.datacenter =
                 vinfo[CHOOSE k \in rows : \A j \in rows : k <= j].Datacenter]

\* GET /api/reports/rightsizing
app_api_rightsizing ==
    /\ CanServe
    /\ rs_history' = Served
    /\ LET recs == app_recommendations(rs_tables)
           sorted == SortByKey(filtered_recommendations(recs))
       IN  /\ recommendations' = recs
           /\ rs_response' =
                [k \in 1..Len(sorted) |-> FillContext(sorted[k], rs_tables.vInfo)]
    /\ rs_endpoint' = "app"
    /\ rs_pc' = "done"
    /\ UNCHANGED <<rs_tables, drVars, reloadVars, callVars>>

(***************************************************************************)
(* routes/optimization.py, /api/rightsizing: the modular checks.           *)
(***************************************************************************)

\* df.merge(vinfo[['VM']], on='VM', how='left'): the sheets carry the infra
\* columns themselves, so the merge only repeats a row once per vInfo row of
\* the same VM name
safe_merge_vinfo(df, vinfo) ==
    Flatten([k \in 1..Len(df) |-> Repeat(<<df[k]>>, MergeCopies(vinfo, df[k].VM))])

\* vhost_info.get(vm_host, {}).get('speed', 2400)
host_speed(vhost, vm_host) ==
    LET hits == {k \in 1..Len(vhost) : vhost[k].Host = vm_host}
    IN  IF hits = {} THEN 2400
        ELSE vhost[CHOOSE k \in hits : \A j \in hits : j <= k].Speed

\* the guard of check_cpu_underutilization dropped: VMs of one or two vCPUs
\* are assessed as well
KeepsAtLeastTwoDropped(current_cpu) == FALSE

\* `if current_cpu <= 2: continue`
KeepsAtLeastTwo(current_cpu) == current_cpu <= 2

check_cpu_underutilization(vcpu, vhost) ==
    Flatten([k \in 1..Len(vcpu) |->
        LET vm == vcpu[k]
            current_cpu == vm.CPUs
            max_capacity_mhz == current_cpu * host_speed(vhost, vm.Host)
            low == IF max_capacity_mhz > 0
                   THEN vm.Overall * 100 < 10 * max_capacity_mhz
                   ELSE TRUE
            recommended == Max2(2, current_cpu \div 2)
        IN  IF /\ vm.Powerstate = "poweredOn"
               /\ ~KeepsAtLeastTwo(current_cpu)
               /\ low
            THEN << Finding(vm.VM, "LOW_CPU_USAGE", "LOW",
                            SavingsCount(current_cpu - recommended), "vCPU",
                            vm.Datacenter) >>
            ELSE <<>>])

check_vm_tools(vtools, vinfo) ==
    Flatten([k \in 1..Len(vtools) |->
        LET vm == vtools[k]
        IN  IF ~ToolsRunning(vm.Status) /\ vm.VM \in PoweredOnNames(vinfo)
            THEN << Finding(vm.VM, "VM_TOOLS", "HIGH", 0, "Health",
                            vm.Datacenter) >>
            ELSE <<>>])

check_old_snapshots(vsnapshot) ==
    Flatten([k \in 1..Len(vsnapshot) |->
        LET snap == vsnapshot[k]
        IN  IF OlderThan(snap.AgeDays, 7)
            THEN << Finding(snap.VM, "OLD_SNAPSHOT", "HIGH", 0, "Performance",
                            snap.Datacenter) >>
            ELSE <<>>])

check_legacy_nics(vnetwork) ==
    Flatten([k \in 1..Len(vnetwork) |->
        LET vm == vnetwork[k]
        IN  IF IsLegacyAdapter(vm.Adapter)
            THEN << Finding(vm.VM, "LEGACY_NIC", "LOW", 0, "Performance",
                            vm.Datacenter) >>
            ELSE <<>>])

N_orphaned_disk == <<"O", "r", "p", "h", "a", "n", "e", "d", " ", "D", "i", "s", "k">>

get_zombie_vms(vhealth) ==
    Flatten([k \in 1..Len(vhealth) |->
        IF IsZombieMessage(vhealth[k].Message)
        THEN << Finding(N_orphaned_disk, "ZOMBIE_DISK", "HIGH", 0, "Storage",
                        "Unknown DC") >>
        ELSE <<>>])

\* all_recommendations when the checks are through
all_recommendations(tb) ==
    Appended(FreshList(recommendations) \o Flatten(<<
        check_cpu_underutilization(safe_merge_vinfo(tb.vCPU, tb.vInfo), tb.vHost),
        check_vm_tools(safe_merge_vinfo(tb.vTools, tb.vInfo), tb.vInfo),
        check_old_snapshots(safe_merge_vinfo(tb.vSnapshot, tb.vInfo)),
        check_legacy_nics(safe_merge_vinfo(tb.vNetwork, tb.vInfo)),
        get_zombie_vms(tb.vHealth) >>))

\* GET /api/rightsizing
routes_api_rightsizing ==
    /\ CanServe
    /\ rs_history' = Served
    /\ recommendations' = all_recommendations(rs_tables)
    /\ rs_response' = all_recommendations(rs_tables)
    /\ rs_endpoint' = "routes"
    /\ rs_pc' = "done"
    /\ UNCHANGED <<rs_tables, drVars, reloadVars, callVars>>

NextRS ==
    \/ app_api_rightsizing
    \/ routes_api_rightsizing

\* a right-sizing request is about to be served over some table snapshot; no
\* reload is running
InitRS ==
    /\ dr_vinfo = <<>>
    /\ dr_pc = "idle"
    /\ dr_i = 0
    /\ matched_pairs = <<>>
    /\ unmatched_replicas = <<>>
    /\ files_epoch = 1
    /\ db_tables = SheetNames
    /\ db_rows = [t \in SheetNames |-> <<1>>]
    /\ data_cache = [c \in CacheKeys |-> 0]
    /\ rl_pc = [r \in Reloaders |-> "idle"]
    /\ rl_tables = [r \in Reloaders |-> <<>>]
    /\ rl_xls = [r \in Reloaders |-> 0]
    /\ rl_k = [r \in Reloaders |-> 0]
    /\ rl_started = 0
    /\ rd_pc = [q \in Requests |-> "idle"]
    /\ rd_kind = [q \in Requests |-> "api_rightsizing"]
    /\ rd_k = [q \in Requests |-> 0]
    /\ rd_snap = [q \in Requests |-> [t \in SheetNames |-> NotRead]]
    /\ \E vinfo \in RSVInfoTables, vhost \in RSVHostTables :
          \E aux \in RSAuxLists(vinfo) :
             rs_tables = RSSnapshot(vinfo, vhost, aux)
    /\ rs_pc = "idle"
    /\ rs_endpoint = "none"
    /\ recommendations = <<>>
    /\ rs_response = <<>>
    /\ rs_history = <<>>
    /\ call_args = NoCall
    /\ call_pc = "ready"
    /\ call_result = <<>>

SpecRS == InitRS /\ [][NextRS]_vars

(***************************************************************************)
(* Claims about the DR matcher (SpecDR)                                    *)
(***************************************************************************)

C2_ProductionPairedOnce ==
    \A j, k \in 1..Len(matched_pairs) :
        j # k => matched_pairs[j].prod_row # matched_pairs[k].prod_row

(***************************************************************************)
(* Claims about the reload (SpecReload)                                    *)
(***************************************************************************)

\* the frame of table t as one complete ingestion of epoch e holds it
EpochFrame(e) == [read |-> TRUE, present |-> TRUE, rows |-> <<e>>]

\* C3: the tables an analysis request has read when it answers all belong to
\* one ingestion epoch: no mix of epochs, no missing or partially loaded table.
C3_RequestReadsOneEpoch ==
    \A q \in Requests :
        rd_pc[q] = "done" =>
            \E e \in 1..MaxEpoch :
                \A k \in 1..Len(ReadOrder(rd_kind[q])) :
                    rd_snap[q][ReadOrder(rd_kind[q])[k]] = EpochFrame(e)

\* C4: reloads do not interleave, so once no reload is in flight no table
\* holds the rows of a sheet twice (a sheet has one row here).
C4_NoSheetTwiceAfterReloads ==
    (\A r \in Reloaders : rl_pc[r] = "idle") =>
        \A t \in SheetNames : Len(db_rows[t]) <= 1

(***************************************************************************)
(* Claims about the right-sizing endpoints (SpecRS)                        *)
(***************************************************************************)

\* C5: the returned recommendation list is ordered by severity rank
\* (CRITICAL, HIGH, MEDIUM, LOW) and, within one rank, by potential_savings
\* descending: no finding has a sort key strictly before that of a finding
\* returned ahead of it.
C5_ResponseRanked ==
    rs_pc = "done" =>
        \A j, k \in 1..Len(rs_response) :
            j < k => ~KeyBefore(rs_response[k], rs_response[j])

\* C6: a finding the checks emitted is in the returned list exactly when its
\* potential_savings is positive or its type is one of the compliance types.
C6_ReturnedIffSavingsOrCompliance ==
    rs_pc = "done" =>
        \A k \in 1..Len(recommendations) :
            (\E j \in 1..Len(rs_response) :
                rs_response[j].seq = recommendations[k].seq)
            <=> IsKept(recommendations[k])

\* C7: the returned list holds at most one finding for each pair of target VM
\* (name and datacenter as returned) and finding type.
C7_OneFindingPerTargetAndType ==
    \A j, k \in 1..Len(rs_response) :
        (/\ rs_response[j].vm = rs_response[k].vm
         /\ rs_response[j].datacenter = rs_response[k].datacenter
         /\ rs_response[j].type = rs_response[k].type) => j = k

PowerGatedTypes ==
    {"MEMORY_BALLOON", "MEMORY_SWAP", "VM_TOOLS", "CPU_UNDERUTILIZED",
     "LOW_CPU_USAGE"}

\* C8: no returned memory-balloon, memory-swap, VM-tools or CPU-underutilisation
\* finding names (by VM name and datacenter) a vInfo record whose power state
\* is not poweredOn, whatever other records share the VM name.
C8_GatedFindingsTargetPoweredOn ==
    \A k \in 1..Len(rs_response) :
        rs_response[k].type \in PowerGatedTypes =>
            \A v \in 1..Len(rs_tables.vInfo) :
                (/\ rs_tables.vInfo[v].VM = rs_response[k].vm
                 /\ rs_tables.vInfo[v].Datacenter = rs_response[k].datacenter)
                => rs_tables.vInfo[v].Powerstate = "poweredOn"

\* C9: every returned finding names a VM of vInfo or a host of vHost of the
\* snapshot the request read.
C9_TargetsAreInventoryRecords ==
    \A k \in 1..Len(rs_response) :
        \/ \E v \in 1..Len(rs_tables.vInfo) :
              rs_tables.vInfo[v].VM = rs_response[k].vm
        \/ \E h \in 1..Len(rs_tables.vHost) :
              rs_tables.vHost[h].Host = rs_response[k].vm

\* C10: every finding the checks emit with resource type DISK_GB or vCPU has
\* potential_savings >= 0.
C10_SavingsNonNegative ==
    \A k \in 1..Len(recommendations) :
        recommendations[k].resource_type \in {"DISK_GB", "vCPU"} =>
            recommendations[k].potential_savings >= 0

\* a request of either handler has emitted a disk finding and a vCPU finding
C10_Witness ==
    /\ rs_pc = "done"
    /\ \E k \in 1..Len(recommendations) :
          /\ recommendations[k].resource_type = "DISK_GB"
          /\ recommendations[k].potential_savings > 0
    /\ \E k \in 1..Len(recommendations) :
          /\ recommendations[k].resource_type = "vCPU"
          /\ recommendations[k].type \in {"CPU_UNDERUTILIZED", "LOW_CPU_USAGE"}

MaxHierHosts == 2

MaxHierVMs == 2

HierHostNames == <<"h1", "h2", "h3">>

\* a cluster label: a name, the empty string, or a null cell ('nan')
HierClusterLabels == {"c1", "", "nan"}

\* vHost tables: the first MaxHierHosts host names or fewer, one row each
HierVHostTables ==
    UNION { [1..n -> [Datacenter : Datacenters, Cluster : HierClusterLabels]] :
              n \in 0..MaxHierHosts }

\* vInfo tables: row k is VM k
HierVInfoTables ==
    UNION { [1..n -> [Host : {HierHostNames[k] : k \in 1..MaxHierHosts},
                      Datacenter : Datacenters, Cluster : HierClusterLabels,
                      Powerstate : RSPowerStates, CPUs : {1, 2}]] :
              n \in 0..MaxHierVMs }

\* '# Cores' of every host row
HierCores == 8

\* host_metrics.get(host_name, {...: 0})['physical_cores']
get_host_metrics(vhost, host_name) ==
    IF \E k \in 1..Len(vhost) : HierHostNames[k] = host_name
    THEN HierCores ELSE 0

ZeroCounters == [total_vms |-> 0, powered_on |-> 0, total_vcpu |-> 0]

\* the `if ... not in ...` blocks: the nodes on the path are created when
\* missing; a new host node adds its physical cores to its cluster
EnsurePath(hier, vhost, dc, cl, host) ==
    LET dcs == IF dc \in DOMAIN hier.dcs THEN hier.dcs
               ELSE (dc :> ZeroCounters) @@ hier.dcs
        cls == IF <<dc, cl>> \in DOMAIN hier.clusters THEN hier.clusters
               ELSE (<<dc, cl>> :> [total_vms |-> 0, powered_on |-> 0,
                                    total_vcpu |-> 0,
                                    total_physical_cores |-> 0])
                    @@ hier.clusters
        cores == get_host_metrics(vhost, host)
    IN  IF <<dc, cl, host>> \in DOMAIN hier.hosts
        THEN [dcs |-> dcs, clusters |-> cls, hosts |-> hier.hosts]
        ELSE [dcs |-> dcs,
              clusters |-> [cls EXCEPT ![<<dc, cl>>].total_physical_cores =
                                            @ + cores],
              hosts |-> (<<dc, cl, host>> :>
                            [vms |-> <<>>, total_vms |-> 0, powered_on |-> 0,
                             total_vcpu |-> 0, physical_cores |-> cores])
                        @@ hier.hosts]

\* the first loop, rows 1..k of vHost
RECURSIVE HierAfterHosts(_, _)
HierAfterHosts(vhost, k) ==
    IF k = 0 THEN [dcs |-> <<>>, clusters |-> <<>>, hosts |-> <<>>]
    ELSE LET host == vhost[k]
             cluster == IF host.Cluster = "nan" \/ host.Cluster = ""
                        THEN "Standalone Hosts" ELSE host.Cluster
         IN  EnsurePath(HierAfterHosts(vhost, k - 1), vhost, host.Datacenter,
                        cluster, HierHostNames[k])

\* `cl['total_vms'] += 1` and the two lines after it, left out
ClusterCountsKept(node, row) == node

\* `cl['total_vms'] += 1; cl['total_vcpu'] += int(row['CPUs'])` and powered_on
ClusterCounts(node, row) ==
    [node EXCEPT !.total_vms = @ + 1, !.total_vcpu = @ + row.CPUs,
                 !.powered_on = @ + (IF row.Powerstate = "poweredOn" THEN 1 ELSE 0)]

\* the second loop, rows 1..k of vInfo
RECURSIVE HierAfterVMs(_, _, _)
HierAfterVMs(vhost, vinfo, k) ==
    IF k = 0 THEN HierAfterHosts(vhost, Len(vhost))
    ELSE LET row == vinfo[k]
             cluster == IF row.Cluster = "nan" THEN "Standalone Hosts"
                        ELSE row.Cluster
             dc == row.Datacenter
             on == IF row.Powerstate = "poweredOn" THEN 1 ELSE 0
             hier == EnsurePath(HierAfterVMs(vhost, vinfo, k - 1), vhost, dc,
                                cluster, row.Host)
         IN  [dcs |-> [hier.dcs EXCEPT
                          ![dc].total_vms = @ + 1,
                          ![dc].total_vcpu = @ + row.CPUs,
                          ![dc].powered_on = @ + on],
              clusters |-> [hier.clusters EXCEPT
                          ![<<dc, cluster>>] = ClusterCounts(@, row)],
              hosts |-> [hier.hosts EXCEPT
                          ![<<dc, cluster, row.Host>>].vms = Append(@, k),
                          ![<<dc, cluster, row.Host>>].total_vms = @ + 1,
                          ![<<dc, cluster, row.Host>>].total_vcpu = @ + row.CPUs,
                          ![<<dc, cluster, row.Host>>].powered_on = @ + on]]

build_hierarchy(vhost, vinfo) == HierAfterVMs(vhost, vinfo, Len(vinfo))

\* api_hosts_clusters calls build_hierarchy
call_build_hierarchy ==
    /\ call_args.fn = "build_hierarchy"
    /\ call_pc = "ready"
    /\ call_result' = build_hierarchy(call_args.vhost, call_args.vinfo)
    /\ call_pc' = "returned"
    /\ UNCHANGED <<call_args, drVars, reloadVars, rsVars>>

NextHier == call_build_hierarchy

\* the tables api_hosts_clusters read, before build_hierarchy is called
InitHier ==
    /\ dr_vinfo = <<>>
    /\ dr_pc = "idle"
    /\ dr_i = 0
    /\ matched_pairs = <<>>
    /\ unmatched_replicas = <<>>
    /\ files_epoch = 1
    /\ db_tables = SheetNames
    /\ db_rows = [t \in SheetNames |-> <<1>>]
    /\ data_cache = [c \in CacheKeys |-> 0]
    /\ rl_pc = [r \in Reloaders |-> "idle"]
    /\ rl_tables = [r \in Reloaders |-> <<>>]
    /\ rl_xls = [r \in Reloaders |-> 0]
    /\ rl_k = [r \in Reloaders |-> 0]
    /\ rl_started = 0
    /\ rd_pc = [q \in Requests |-> "idle"]
    /\ rd_kind = [q \in Requests |-> "api_rightsizing"]
    /\ rd_k = [q \in Requests |-> 0]
    /\ rd_snap = [q \in Requests |-> [t \in SheetNames |-> NotRead]]
    /\ rs_tables = EmptySnapshot
    /\ rs_pc = "idle"
    /\ rs_endpoint = "none"
    /\ recommendations = <<>>
    /\ rs_response = <<>>
    /\ rs_history = <<>>
    /\ \E vhost \in HierVHostTables, vinfo \in HierVInfoTables :
          call_args = [fn |-> "build_hierarchy", vhost |-> vhost, vinfo |-> vinfo]
    /\ call_pc = "ready"
    /\ call_result = <<>>

SpecHier == InitHier /\ [][NextHier]_vars

HierBuilt == call_args.fn = "build_hierarchy" /\ call_pc = "returned"

\* sum of one counter over the nodes of a map whose key starts with prefix
RECURSIVE HierSum(_, _, _)
HierSum(nodes, keys, field) ==
    IF keys = {} THEN 0
    ELSE LET k == CHOOSE x \in keys : TRUE
         IN  nodes[k][field] + HierSum(nodes, keys \ {k}, field)

HierCounters == {"total_vms", "powered_on", "total_vcpu"}

\* C12: in the tree build_hierarchy returns, total_vms, powered_on and
\* total_vcpu of every cluster node equal the sums over its host nodes, and
\* those of every datacenter node equal the sums over its cluster nodes.
C12_RollupsAreSums ==
    HierBuilt =>
        \A f \in HierCounters :
            /\ \A c \in DOMAIN call_result.clusters :
                  call_result.clusters[c][f] =
                     HierSum(call_result.hosts,
                             {h \in DOMAIN call_result.hosts :
                                 <<h[1], h[2]>> = c}, f)
            /\ \A d \in DOMAIN call_result.dcs :
                  call_result.dcs[d][f] =
                     HierSum(call_result.clusters,
                             {c \in DOMAIN call_result.clusters : c[1] = d}, f)

\* a tree with a cluster of two hosts that both run a VM
C12_Witness ==
    /\ HierBuilt
    /\ \E c \in DOMAIN call_result.clusters :
          /\ call_result.clusters[c].total_vms = 2
          /\ Cardinality({h \in DOMAIN call_result.hosts :
                             <<h[1], h[2]>> = c
                             /\ call_result.hosts[h].total_vms = 1}) = 2

\* C13: in the tree build_hierarchy returns every vInfo row is in the VM list
\* of exactly one host node, and every host name is the name of exactly one
\* host node.
C13_EachVMAndHostOnce ==
    HierBuilt =>
        /\ \A k \in 1..Len(call_args.vinfo) :
              Cardinality({h \in DOMAIN call_result.hosts :
                  \E j \in 1..Len(call_result.hosts[h].vms) :
                      call_result.hosts[h].vms[j] = k}) = 1
        /\ \A h, g \in DOMAIN call_result.hosts : h[3] = g[3] => h = g

(***************************************************************************)
(* routes/risks.py: GET /api/risks over a store in which each of the three *)
(* tables it reads is present (with rows) or absent.                       *)
(***************************************************************************)

MaxRiskRows == 1

\* EOL_OS_PATTERNS, each character class written out, in lower case
\* (re.search with re.I)
EOL_OS_PATTERNS ==
    { <<"w", "i", "n", "d", "o", "w", "s", " ", "s", "e", "r", "v", "e", "r", " ", "2", "0", "0", "3">>, <<"w", "i", "n", "d", "o", "w", "s", " ", "s", "e", "r", "v", "e", "r", " ", "2", "0", "0", "8">>, <<"w", "i", "n", "d", "o", "w", "s", " ", "s", "e", "r", "v", "e", "r", " ", "2", "0", "1", "2">>,
      <<"c", "e", "n", "t", "o", "s", " ", "7">>, <<"c", "e", "n", "t", "o", "s", " ", "6">>, <<"c", "e", "n", "t", "o", "s", " ", "5">>,
      <<"r", "e", "d", " ", "h", "a", "t", " ", "e", "n", "t", "e", "r", "p", "r", "i", "s", "e", " ", "l", "i", "n", "u", "x", " ", "4">>, <<"r", "e", "d", " ", "h", "a", "t", " ", "e", "n", "t", "e", "r", "p", "r", "i", "s", "e", " ", "l", "i", "n", "u", "x", " ", "5">>,
      <<"r", "e", "d", " ", "h", "a", "t", " ", "e", "n", "t", "e", "r", "p", "r", "i", "s", "e", " ", "l", "i", "n", "u", "x", " ", "6">>,
      <<"u", "b", "u", "n", "t", "u", " ", "1", "0", ".">>, <<"u", "b", "u", "n", "t", "u", " ", "1", "2", ".">>, <<"u", "b", "u", "n", "t", "u", " ", "1", "4", ".">>, <<"u", "b", "u", "n", "t", "u", " ", "1", "6", ".">>,
      <<"d", "e", "b", "i", "a", "n", " ", "6">>, <<"d", "e", "b", "i", "a", "n", " ", "7">>, <<"d", "e", "b", "i", "a", "n", " ", "8">>, <<"d", "e", "b", "i", "a", "n", " ", "9">> }

RiskOSLabels == { <<"C", "e", "n", "t", "O", "S", " ", "7">>, <<"U", "b", "u", "n", "t", "u", " ", "2", "2", ".", "0", "4">> }

RiskESXVersions == { <<"6", ".", "7", ".", "0">>, <<"8", ".", "0", ".", "1">> }

RiskBIOSDates == { <<"0", "5", "/", "2", "0", "1", "9">>, <<"1", "1", "/", "2", "0", "2", "3">>, <<"n", "/", "a">> }

RiskMessageTypes == { <<"C", "r", "i", "t", "i", "c", "a", "l">>, <<"w", "a", "r", "n", "i", "n", "g">> }

DigitValue ==
    [c \in {"0", "1", "2", "3", "4", "5", "6", "7", "8", "9"} |->
        CASE c = "0" -> 0 [] c = "1" -> 1 [] c = "2" -> 2 [] c = "3" -> 3
          [] c = "4" -> 4 [] c = "5" -> 5 [] c = "6" -> 6 [] c = "7" -> 7
          [] c = "8" -> 8 [] c = "9" -> 9]

\* re.search(r'(19|20)\d{2}', s): the positions where a match starts
YearMatches(s) ==
    { p \in 1..(Len(s) - 3) :
        /\ <<s[p], s[p + 1]>> \in {<<"1", "9">>, <<"2", "0">>}
        /\ IsDigit(s[p + 2]) /\ IsDigit(s[p + 3]) }

\* int(year_match.group(0)) of the leftmost match
YearOf(s) ==
    LET p == CHOOSE q \in YearMatches(s) : \A r \in YearMatches(s) : q <= r
    IN  DigitValue[s[p]] * 1000 + DigitValue[s[p + 1]] * 100
          + DigitValue[s[p + 2]] * 10 + DigitValue[s[p + 3]]

\* a table of the store: absent, or present with up to MaxRiskRows rows
RiskTable(rows) ==
    {[present |-> FALSE, rows |-> <<>>]} \cup
    { [present |-> TRUE, rows |-> r] :
        r \in UNION { [1..n -> rows] : n \in 0..MaxRiskRows } }

RiskStores ==
    [vInfo : RiskTable([VM : {"web01"}, OS : RiskOSLabels]),
     vHost : RiskTable([Host : {"esx01"}, ESXVersion : RiskESXVersions,
                        BIOSDate : RiskBIOSDates,
                        Model : {"PowerEdge R740", NullCell}]),
     vHealth : RiskTable([Name : {"esx01"}, MessageType : RiskMessageTypes])]

Risk(target, type, severity) ==
    [target |-> target, type |-> type, severity |-> severity]

check_os_risks(vinfo) ==
    Flatten([k \in 1..Len(vinfo) |->
        IF \E p \in EOL_OS_PATTERNS : Contains(Lower(vinfo[k].OS), p)
        THEN <<Risk(vinfo[k].VM, "OS_EOL", "Critical")>> ELSE <<>>])

check_host_risks(vhost) ==
    Flatten([k \in 1..Len(vhost) |->
        (IF Contains(vhost[k].ESXVersion, <<"6", ".">>)
            \/ Contains(vhost[k].ESXVersion, <<"5", ".">>)
         THEN <<Risk(vhost[k].Host, "ESXI_OUTDATED", "High")>> ELSE <<>>)
        \o
        (IF YearMatches(vhost[k].BIOSDate) # {}
            /\ YearOf(vhost[k].BIOSDate) < 2021
         THEN <<Risk(vhost[k].Host, "BIOS_OUTDATED", "Medium")>> ELSE <<>>)])

check_vhealth_risks(vhealth) ==
    [k \in 1..Len(vhealth) |->
        Risk(vhealth[k].Name, "RV_HEALTH",
             IF Lower(vhealth[k].MessageType) = <<"c", "r", "i", "t", "i", "c", "a", "l">>
             THEN "High" ELSE "Medium")]

\* what the advisory provider does when it is called: it answers, the API
\* key is not set, the request times out, or it is refused (raise_for_status)
ProviderOutcomes == {"answers", "unconfigured", "fails", "refused"}

\* ai_insight when there is no risk to report on
DefaultInsight == <<"N", "o", " ", "c", "r", "i", "t", "i", "c", "a", "l", " ", "r", "i", "s", "k", " ", "f", "o", "u", "n", "d", ".">>

KeyNotFoundText == <<"x", "A", "I", " ", "A", "P", "I", " ", "k", "e", "y", " ", "n", "o", "t", " ", "f", "o", "u", "n", "d">>

AdviceText == <<"U", "p", "d", "a", "t", "e", " ", "t", "h", "e", " ", "d", "r", "i", "v", "e", "r", ".">>

TimeoutText == <<"R", "e", "a", "d", " ", "t", "i", "m", "e", "d", " ", "o", "u", "t", ".">>

ClientErrorText == <<"4", "0", "1", " ", "C", "l", "i", "e", "n", "t", " ", "E", "r", "r", "o", "r">>

\* call_grok: the answer, 'xAI API key not found' without a key, and str(e)
\* of the exception when the request fails
call_grok(provider) ==
    CASE provider = "answers" -> AdviceText
      [] provider = "unconfigured" -> KeyNotFoundText
      [] provider = "fails" -> TimeoutText
      [] provider = "refused" -> ClientErrorText

\* ", ".join(vhost['Model'].unique().tolist()[:5]) raises TypeError when a
\* Model cell is null
PromptRaises(vhost) == \E k \in 1..Len(vhost) : vhost[k].Model = NullCell

\* pd.read_sql_query raises on a table the store does not have; the handler's
\* except clause answers {'error': ...} with status 500, as it does for an
\* exception of the advisory step
api_risks(store, provider) ==
    IF ~store.vInfo.present \/ ~store.vHost.present \/ ~store.vHealth.present
    THEN [status |-> 500, risks |-> <<>>, ai_insight |-> <<>>]
    ELSE LET risks == check_os_risks(store.vInfo.rows)
                        \o check_host_risks(store.vHost.rows)
                        \o check_vhealth_risks(store.vHealth.rows)
         IN  IF Len(risks) = 0
             THEN [status |-> 200, risks |-> risks, ai_insight |-> DefaultInsight]
             ELSE IF PromptRaises(store.vHost.rows)
             THEN [status |-> 500, risks |-> <<>>, ai_insight |-> <<>>]
             ELSE [status |-> 200, risks |-> risks,
                   ai_insight |-> call_grok(provider)]

call_api_risks ==
    /\ call_args.fn = "api_risks"
    /\ call_pc = "ready"
    /\ call_result' = api_risks(call_args.store, call_args.provider)
    /\ call_pc' = "returned"
    /\ UNCHANGED <<call_args, drVars, reloadVars, rsVars>>

NextRisks == call_api_risks

\* a store, before GET /api/risks
InitRisks ==
    /\ dr_vinfo = <<>>
    /\ dr_pc = "idle"
    /\ dr_i = 0
    /\ matched_pairs = <<>>
    /\ unmatched_replicas = <<>>
    /\ files_epoch = 1
    /\ \E store \in RiskStores, provider \in ProviderOutcomes :
          call_args = [fn |-> "api_risks", store |-> store, provider |-> provider]
    /\ db_tables = {t \in SheetNames : call_args.store[t].present}
    /\ db_rows = [t \in SheetNames |->
                     IF call_args.store[t].present THEN <<1>> ELSE <<>>]
    /\ data_cache = [c \in CacheKeys |-> 0]
    /\ rl_pc = [r \in Reloaders |-> "idle"]
    /\ rl_tables = [r \in Reloaders |-> <<>>]
    /\ rl_xls = [r \in Reloaders |-> 0]
    /\ rl_k = [r \in Reloaders |-> 0]
    /\ rl_started = 0
    /\ rd_pc = [q \in Requests |-> "idle"]
    /\ rd_kind = [q \in Requests |-> "api_rightsizing"]
    /\ rd_k = [q \in Requests |-> 0]
    /\ rd_snap = [q \in Requests |-> [t \in SheetNames |-> NotRead]]
    /\ rs_tables = EmptySnapshot
    /\ rs_pc = "idle"
    /\ rs_endpoint = "none"
    /\ recommendations = <<>>
    /\ rs_response = <<>>
    /\ rs_history = <<>>
    /\ call_pc = "ready"
    /\ call_result = <<>>

SpecRisks == InitRisks /\ [][NextRisks]_vars

\* C14: GET /api/risks answers normally, with the findings of every check
\* whose table is in the store; a table that is absent only empties its own
\* check.
C14_AbsentTableEmptiesOnlyItsCheck ==
    (call_args.fn = "api_risks" /\ call_pc = "returned") =>
        /\ call_result.status = 200
        /\ call_result.risks =
              check_os_risks(call_args.store.vInfo.rows)
                 \o check_host_risks(call_args.store.vHost.rows)
                 \o check_vhealth_risks(call_args.store.vHealth.rows)

(***************************************************************************)
(* routes/optimization.py: the checks over tables whose cells are text as  *)
(* read from the store; a cell may hold something that does not parse.     *)
(***************************************************************************)

MaxCellRows == 2

\* the decimal number written by s[p..q]
RECURSIVE NumberAt(_, _, _)
NumberAt(s, p, q) ==
    IF q < p THEN 0 ELSE NumberAt(s, p, q - 1) * 10 + DigitValue[s[q]]

\* int(text): the number a string of digits writes; anything else raises
IntParses(s) == Len(s) > 0 /\ \A k \in 1..Len(s) : IsDigit(s[k])

\* int(re.search(r'\d+', s).group()), 0 without a match: the leftmost longest
\* run of digits
FirstNumber(s) ==
    LET starts == {p \in 1..Len(s) : IsDigit(s[p])}
    IN  IF starts = {} THEN 0
        ELSE LET p == CHOOSE x \in starts : \A y \in starts : x <= y
                 q == CHOOSE x \in p..Len(s) :
                         /\ \A k \in p..x : IsDigit(s[k])
                         /\ (x = Len(s) \/ ~IsDigit(s[x + 1]))
             IN  NumberAt(s, p, q)

CellNames == <<N_web01, N_redis_dc01, N_gone01>>

\* vCPU after the merge: the 'CPUs' cell is text
CellVCPUTables ==
    UNION { { [k \in 1..n |-> [VM |-> CellNames[k], Host |-> N_esx01,
                               Datacenter |-> "A", Powerstate |-> f[k].Powerstate,
                               CPUs |-> f[k].CPUs, Overall |-> f[k].Overall]] :
              f \in [1..n -> [Powerstate : RSPowerStates,
                              CPUs : {<<"1">>, <<"8">>, <<"n", "/", "a">>},
                              Overall : {100, 9000}]] } :
            n \in 0..MaxCellRows }

\* vInfo with its 'HW version' cell, and the ESXi version of the one host
CellVInfoTables ==
    UNION { { [k \in 1..n |-> [VM |-> CellNames[k], Datacenter |-> "A",
                               Host |-> f[k].Host, HWVersion |-> f[k].HWVersion]] :
              f \in [1..n -> [Host : {N_esx01, N_gone01},
                              HWVersion : {<<"v", "m", "x", "-", "1", "3">>, <<"1", "9">>, <<"v", "m", "x">>}]] } :
            n \in 0..MaxCellRows }

\* today, and the 'Date / time' cells of vSnapshot
CellToday == <<2024, 1, 10>>

CellVSnapshotTables ==
    UNION { { [k \in 1..n |-> [VM |-> CellNames[k], Datacenter |-> "A",
                               Date |-> f[k]]] :
              f \in [1..n -> {<<"2", "0", "2", "4", "-", "0", "1", "-", "0", "1">>, <<"2", "0", "2", "4", "-", "0", "1", "-", "0", "9">>, <<"l", "a", "s", "t", " ", "w", "e", "e", "k">>}] } :
            n \in 0..MaxCellRows }

\* pd.to_datetime(cell, errors='coerce') of a 'YYYY-MM-DD' cell: <<y, m, d>>,
\* and <<>> (NaT) for a cell of another shape
to_datetime(s) ==
    IF /\ Len(s) = 10 /\ s[5] = "-" /\ s[8] = "-"
       /\ \A k \in {1, 2, 3, 4, 6, 7, 9, 10} : IsDigit(s[k])
    THEN <<NumberAt(s, 1, 4), NumberAt(s, 6, 7), NumberAt(s, 9, 10)>>
    ELSE <<>>

\* (now - date).days for dates of the month of CellToday
AgeDaysOf(date) == CellToday[3] - date[3]

\* the rows a check sees after parsing, with the numbers in place of the text
ParsedVCPU(vcpu) ==
    [k \in 1..Len(vcpu) |->
        [vcpu[k] EXCEPT !.CPUs = NumberAt(vcpu[k].CPUs, 1, Len(vcpu[k].CPUs))]]

\* check_cpu_underutilization over text cells: `int(vm.get('CPUs', 1))` of a
\* powered-on row raises out of the loop and out of the function
run_check_cpu_underutilization(vcpu, vhost) ==
    IF \E k \in 1..Len(vcpu) :
          vcpu[k].Powerstate = "poweredOn" /\ ~IntParses(vcpu[k].CPUs)
    THEN [raised |-> TRUE, recs |-> <<>>]
    ELSE [raised |-> FALSE,
          recs |-> check_cpu_underutilization(
                      ParsedVCPU(SelectSeq(vcpu,
                          LAMBDA r : r.Powerstate = "poweredOn")), vhost)]

\* host_hw_versions of api_rightsizing: 19 for ESXi 7 and 8, 15 for 6.7,
\* else 13; vhost_versions.get(vm_host, 13)
host_hw_versions(vhost, vm_host) ==
    LET hits == {k \in 1..Len(vhost) : vhost[k].Host = vm_host}
    IN  IF hits = {} THEN 13
        ELSE LET version_str ==
                    vhost[CHOOSE k \in hits : \A j \in hits : j <= k].ESXVersion
             IN  IF Contains(version_str, <<"7", ".">>) \/ Contains(version_str, <<"8", ".">>)
                 THEN 19
                 ELSE IF Contains(version_str, <<"6", ".", "7">>) THEN 15 ELSE 13

\* a finding of type OLD_HW_VERSION, with its recommended_value vmx-<max_hw>
HWFinding(vm, max_hw) ==
    [vm |-> vm.VM, type |-> "OLD_HW_VERSION", severity |-> "LOW",
     potential_savings |-> 0, resource_type |-> "Performance",
     datacenter |-> vm.Datacenter, seq |-> 0,
     current_value |-> FirstNumber(vm.HWVersion), recommended_value |-> max_hw]

check_old_hw(vinfo, vhost) ==
    Flatten([k \in 1..Len(vinfo) |->
        LET vm == vinfo[k]
            max_hw == host_hw_versions(vhost, vm.Host)
            curr_hw == FirstNumber(vm.HWVersion)
        IN  IF curr_hw > 0 /\ curr_hw < max_hw
            THEN <<HWFinding(vm, max_hw)>> ELSE <<>>])

\* check_old_snapshots over text cells: unparseable dates become NaT, and a
\* NaT is not older than the threshold
check_old_snapshots_cells(vsnapshot) ==
    check_old_snapshots(
        [k \in 1..Len(SelectSeq(vsnapshot, LAMBDA r : to_datetime(r.Date) # <<>>)) |->
            LET snap == SelectSeq(vsnapshot,
                                  LAMBDA r : to_datetime(r.Date) # <<>>)[k]
            IN  [VM |-> snap.VM, Datacenter |-> snap.Datacenter,
                 AgeDays |-> AgeDaysOf(to_datetime(snap.Date))]])

CellVHost == <<[Host |-> N_esx01, ESXVersion |-> <<"8", ".", "0", ".", "1">>, Speed |-> 2400]>>

call_check_cpu_underutilization ==
    /\ call_args.fn = "check_cpu_underutilization"
    /\ call_pc = "ready"
    /\ call_result' = run_check_cpu_underutilization(call_args.rows, call_args.vhost)
    /\ call_pc' = "returned"
    /\ UNCHANGED <<call_args, drVars, reloadVars, rsVars>>

call_check_old_hw ==
    /\ call_args.fn = "check_old_hw"
    /\ call_pc = "ready"
    /\ call_result' = [raised |-> FALSE,
                       recs |-> check_old_hw(call_args.rows, call_args.vhost)]
    /\ call_pc' = "returned"
    /\ UNCHANGED <<call_args, drVars, reloadVars, rsVars>>

call_check_old_snapshots ==
    /\ call_args.fn = "check_old_snapshots"
    /\ call_pc = "ready"
    /\ call_result' = [raised |-> FALSE,
                       recs |-> check_old_snapshots_cells(call_args.rows)]
    /\ call_pc' = "returned"
    /\ UNCHANGED <<call_args, drVars, reloadVars, rsVars>>

NextChecks ==
    \/ call_check_cpu_underutilization
    \/ call_check_old_hw
    \/ call_check_old_snapshots

\* one table, before its check is called
InitChecks ==
    /\ dr_vinfo = <<>>
    /\ dr_pc = "idle"
    /\ dr_i = 0
    /\ matched_pairs = <<>>
    /\ unmatched_replicas = <<>>
    /\ files_epoch = 1
    /\ db_tables = SheetNames
    /\ db_rows = [t \in SheetNames |-> <<1>>]
    /\ data_cache = [c \in CacheKeys |-> 0]
    /\ rl_pc = [r \in Reloaders |-> "idle"]
    /\ rl_tables = [r \in Reloaders |-> <<>>]
    /\ rl_xls = [r \in Reloaders |-> 0]
    /\ rl_k = [r \in Reloaders |-> 0]
    /\ rl_started = 0
    /\ rd_pc = [q \in Requests |-> "idle"]
    /\ rd_kind = [q \in Requests |-> "api_rightsizing"]
    /\ rd_k = [q \in Requests |-> 0]
    /\ rd_snap = [q \in Requests |-> [t \in SheetNames |-> NotRead]]
    /\ rs_tables = EmptySnapshot
    /\ rs_pc = "idle"
    /\ rs_endpoint = "none"
    /\ recommendations = <<>>
    /\ rs_response = <<>>
    /\ rs_history = <<>>
    /\ \/ \E rows \in CellVCPUTables :
             call_args = [fn |-> "check_cpu_underutilization", rows |-> rows,
                          vhost |-> CellVHost]
       \/ \E rows \in CellVInfoTables :
             call_args = [fn |-> "check_old_hw", rows |-> rows,
                          vhost |-> CellVHost]
       \/ \E rows \in CellVSnapshotTables :
             call_args = [fn |-> "check_old_snapshots", rows |-> rows,
                          vhost |-> CellVHost]
    /\ call_pc = "ready"
    /\ call_result = <<>>

SpecChecks == InitChecks /\ [][NextChecks]_vars

\* a record whose field does not parse
IsBadRecord(fn, r) ==
    CASE fn = "check_cpu_underutilization" -> ~IntParses(r.CPUs)
      [] fn = "check_old_hw" -> FirstNumber(r.HWVersion) = 0
      [] fn = "check_old_snapshots" -> to_datetime(r.Date) = <<>>

\* what the check returns for the table without its bad records
FindingsOfGoodRecords(args) ==
    LET good == SelectSeq(args.rows, LAMBDA r : ~IsBadRecord(args.fn, r))
    IN  CASE args.fn = "check_cpu_underutilization" ->
                run_check_cpu_underutilization(good, args.vhost).recs
          [] args.fn = "check_old_hw" -> check_old_hw(good, args.vhost)
          [] args.fn = "check_old_snapshots" -> check_old_snapshots_cells(good)

ChecksFns ==
    {"check_cpu_underutilization", "check_old_hw", "check_old_snapshots"}

\* C15: a check returns without raising, and returns exactly the findings of
\* the records whose numeric or date field parses.
C15_BadRecordAloneSkipped ==
    (call_args.fn \in ChecksFns /\ call_pc = "returned") =>
        /\ ~call_result.raised
        /\ call_result.recs = FindingsOfGoodRecords(call_args)

\* the least element of a non-empty set of row indices
FirstOf(rows) == CHOOSE k \in rows : \A j \in rows : k <= j

C17_CanonicalIsOneRow ==
    \A j \in 1..Len(matched_pairs) :
        LET p == matched_pairs[j]
            first == dr_vinfo[p.prod_row]
        IN  /\ p.production_vm = first.VM
            /\ p.production_dc = first.Datacenter
            /\ p.production_cluster = first.Cluster

(***************************************************************************)
(* routes/dr.py: calculate_dr_site_capacity.  Percentages and capacity     *)
(* ratios are kept in tenths, gigabytes in hundredths, and a quotient that *)
(* is not rounded as the pair <<numerator, denominator>>.                  *)
(***************************************************************************)

MaxSiteHosts == 2

MaxSitePairs == 2

\* the matched pairs, as far as calculate_dr_site_capacity reads them
SitePairs ==
    UNION { [1..n -> [replica_dc : Datacenters, vcpu : {0, 4, 12},
                      memory_gb : {1600}, disk_gb : {5000}]] :
              n \in 0..MaxSitePairs }

\* vHost after the numeric clean-up of api_dr_analysis
SiteVHostTables ==
    UNION { [1..n -> [Datacenter : Datacenters, Cores : {0, 8},
                      MemoryMB : {0, 65536}, CPUUsage : {0, 45, 100},
                      MemUsage : {30, 90}]] :
              n \in 0..MaxSiteHosts }

\* round(p / q) to the nearest integer, ties to even, for p >= 0 and q > 0
RoundHalfEven(p, q) ==
    LET f == p \div q
        r == p % q
    IN  IF 2 * r < q THEN f
        ELSE IF 2 * r > q THEN f + 1
        ELSE IF f % 2 = 0 THEN f ELSE f + 1

\* sum of one field over the rows of a sequence
RECURSIVE SumField(_, _)
SumField(rows, field) ==
    IF rows = <<>> THEN 0 ELSE Head(rows)[field] + SumField(Tail(rows), field)

RECURSIVE GCD(_, _)
GCD(a, b) == IF b = 0 THEN a ELSE GCD(b, a % b)

\* the quotient x in lowest terms
Reduced(x) == LET g == GCD(x[1], x[2]) IN <<x[1] \div g, x[2] \div g>>

\* min(100, x) dropped
Cap100None(x) == x

\* min(100, x) of a quotient x
Cap100(x) == IF x[1] > 100 * x[2] THEN <<100, 1>> ELSE x

\* `min(100, available / ratio * 100) if ratio > 0 else 100`, where
\* ratio = required / total * 100 if total > 0 else 0, and available is
\* 100 - usage with usage in tenths
ReadyOf(required, total, usage10) ==
    IF total > 0 /\ required > 0
    THEN Cap100(Reduced(<<(1000 - usage10) * total, 10 * required>>))
    ELSE <<100, 1>>

\* `round(required / total * 100, 1) if total > 0 else 0`, in tenths
RatioOf(required, total) ==
    IF total > 0 THEN RoundHalfEven(required * 1000, total) ELSE 0

\* the entry of one datacenter that has host rows
SiteEntry(dc, matched, dc_hosts) ==
    LET mine == SelectSeq(matched, LAMBDA p : p.replica_dc = dc)
        total_cores == SumField(dc_hosts, "Cores")
        total_memory_gb == Round2GB(SumField(dc_hosts, "MemoryMB"))
        avg_cpu_usage == RoundHalfEven(SumField(dc_hosts, "CPUUsage") * 10,
                                       Len(dc_hosts))
        avg_mem_usage == RoundHalfEven(SumField(dc_hosts, "MemUsage") * 10,
                                       Len(dc_hosts))
        required_vcpu == SumField(mine, "vcpu")
        required_memory_gb == SumField(mine, "memory_gb")
        cpu_ready == ReadyOf(required_vcpu, total_cores, avg_cpu_usage)
        mem_ready == ReadyOf(required_memory_gb, total_memory_gb, avg_mem_usage)
        readiness_score ==
            RoundHalfEven(5 * (cpu_ready[1] * mem_ready[2]
                                 + mem_ready[1] * cpu_ready[2]),
                          cpu_ready[2] * mem_ready[2])
    IN  [datacenter |-> dc,
         host_count |-> Len(dc_hosts),
         total_cores |-> total_cores,
         total_memory_gb |-> total_memory_gb,
         current_cpu_usage_pct |-> avg_cpu_usage,
         current_mem_usage_pct |-> avg_mem_usage,
         replicated_vm_count |-> Len(mine),
         required_vcpu |-> required_vcpu,
         required_memory_gb |-> required_memory_gb,
         required_disk_gb |-> SumField(mine, "disk_gb"),
         cpu_capacity_ratio |-> RatioOf(required_vcpu, total_cores),
         mem_capacity_ratio |-> RatioOf(required_memory_gb, total_memory_gb),
         readiness_score |-> readiness_score,
         failover_feasible |-> readiness_score >= 800]

\* dr_sites: an entry for each replica datacenter with `len(dc_hosts) > 0`
calculate_dr_site_capacity(matched, vhost) ==
    LET unique_dr_dcs == {matched[k].replica_dc : k \in 1..Len(matched)}
        hostsOf(dc) == SelectSeq(vhost, LAMBDA h : h.Datacenter = dc)
    IN  [dc \in {d \in unique_dr_dcs : Len(hostsOf(d)) > 0} |->
            SiteEntry(dc, matched, hostsOf(dc))]

call_calculate_dr_site_capacity ==
    /\ call_args.fn = "calculate_dr_site_capacity"
    /\ call_pc = "ready"
    /\ call_result' = calculate_dr_site_capacity(call_args.matched_pairs,
                                                 call_args.vhost)
    /\ call_pc' = "returned"
    /\ UNCHANGED <<call_args, drVars, reloadVars, rsVars>>

NextSites == call_calculate_dr_site_capacity

\* matched pairs and host rows, before the capacity of the DR sites is
\* calculated
InitSites ==
    /\ dr_vinfo = <<>>
    /\ dr_pc = "idle"
    /\ dr_i = 0
    /\ matched_pairs = <<>>
    /\ unmatched_replicas = <<>>
    /\ files_epoch = 1
    /\ db_tables = SheetNames
    /\ db_rows = [t \in SheetNames |-> <<1>>]
    /\ data_cache = [c \in CacheKeys |-> 0]
    /\ rl_pc = [r \in Reloaders |-> "idle"]
    /\ rl_tables = [r \in Reloaders |-> <<>>]
    /\ rl_xls = [r \in Reloaders |-> 0]
    /\ rl_k = [r \in Reloaders |-> 0]
    /\ rl_started = 0
    /\ rd_pc = [q \in Requests |-> "idle"]
    /\ rd_kind = [q \in Requests |-> "api_rightsizing"]
    /\ rd_k = [q \in Requests |-> 0]
    /\ rd_snap = [q \in Requests |-> [t \in SheetNames |-> NotRead]]
    /\ rs_tables = EmptySnapshot
    /\ rs_pc = "idle"
    /\ rs_endpoint = "none"
    /\ recommendations = <<>>
    /\ rs_response = <<>>
    /\ rs_history = <<>>
    /\ \E matched \in SitePairs, vhost \in SiteVHostTables :
          call_args = [fn |-> "calculate_dr_site_capacity",
                       matched_pairs |-> matched, vhost |-> vhost]
    /\ call_pc = "ready"
    /\ call_result = <<>>

SpecSites == InitSites /\ [][NextSites]_vars

SitesReturned ==
    call_args.fn = "calculate_dr_site_capacity" /\ call_pc = "returned"

\* C18: the result has one entry for every distinct replica datacenter of the
\* matched pairs, also for one without host rows; an entry whose datacenter
\* has zero cores or zero required vCPUs has CPU capacity ratio 0 or CPU
\* readiness 100, and likewise for memory.
C18_EntryPerReplicaDatacenter ==
    SitesReturned =>
        /\ DOMAIN call_result =
              {call_args.matched_pairs[k].replica_dc :
                  k \in 1..Len(call_args.matched_pairs)}
        /\ \A dc \in DOMAIN call_result :
              LET e == call_result[dc]
              IN  /\ e.total_cores = 0 => e.cpu_capacity_ratio = 0
                  /\ e.total_memory_gb = 0 => e.mem_capacity_ratio = 0
                  /\ ((e.total_cores = 0 \/ e.required_vcpu = 0)
                        /\ (e.total_memory_gb = 0 \/ e.required_memory_gb = 0))
                       => e.readiness_score = 1000

\* C19: in every entry readiness_score is the mean of the CPU and RAM
\* readiness, each min(100, available / capacity ratio * 100) with available
\* = 100 - average usage, to the one decimal the entry keeps; failover_feasible
\* is true exactly when the score is at least 80; and the score is within
\* 0..100 (usage is within 0..100 in every table).
C19_ReadinessIsCappedMean ==
    SitesReturned =>
        \A dc \in DOMAIN call_result :
            LET e == call_result[dc]
                \* available / (required / total * 100) * 100, capped at 100
                ready(required, total, usage10) ==
                    LET x == Reduced(<<(1000 - usage10) * total, 10 * required>>)
                    IN  IF x[1] > 100 * x[2] THEN <<100, 1>> ELSE x
                cpu == IF e.total_cores > 0 /\ e.required_vcpu > 0
                       THEN ready(e.required_vcpu, e.total_cores,
                                  e.current_cpu_usage_pct)
                       ELSE <<100, 1>>
                mem == IF e.total_memory_gb > 0 /\ e.required_memory_gb > 0
                       THEN ready(e.required_memory_gb, e.total_memory_gb,
                                  e.current_mem_usage_pct)
                       ELSE <<100, 1>>
                \* ten times the mean, as a quotient p / q
                p == 5 * (cpu[1] * mem[2] + mem[1] * cpu[2])
                q == cpu[2] * mem[2]
                d == 2 * e.readiness_score * q - 2 * p
            IN  /\ d <= q /\ -d <= q
                /\ e.failover_feasible <=> e.readiness_score >= 800
                /\ e.readiness_score >= 0 /\ e.readiness_score <= 1000

\* a site whose CPU readiness is capped at 100 and whose RAM readiness is not
C19_Witness ==
    /\ SitesReturned
    /\ \E dc \in DOMAIN call_result :
          LET e == call_result[dc]
          IN  /\ e.required_vcpu > 0 /\ e.total_cores > 0
              /\ (1000 - e.current_cpu_usage_pct) * e.total_cores
                    > 1000 * e.required_vcpu
              /\ e.readiness_score < 1000
              /\ e.readiness_score > 0

(***************************************************************************)
(* The OLD_HW_VERSION check of both rightsizing handlers: app.py 941-1025  *)
(* and routes/optimization.py 100-125 with the mapping of 245-249.         *)
(***************************************************************************)

MaxHWRows == 2

esxi_hw_map ==
    << <<<<8, 0, 1>>, 21>>, <<<<8, 0, 0>>, 20>>,
       <<<<7, 0, 2>>, 19>>, <<<<7, 0, 1>>, 18>>, <<<<7, 0, 0>>, 17>>,
       <<<<6, 7, 2>>, 15>>, <<<<6, 7, 0>>, 14>>,
       <<<<6, 5, 0>>, 13>>,
       <<<<6, 0, 0>>, 11>>,
       <<<<5, 5, 0>>, 10>>, <<<<5, 1, 0>>, 9>>, <<<<5, 0, 0>>, 8>> >>

\* 'ESX Version' cells of the host row
HWESXVersions ==
    { <<"V", "M", "w", "a", "r", "e", " ", "E", "S", "X", "i", " ", "8", ".", "0", ".", "1", " ", "b", "u", "i", "l", "d", "-", "1">>, <<"7", ".", "0", ".", "0">>, <<"6", ".", "7", ".", "0">>, <<"6", ".", "0", ".", "0">>, <<"5", ".", "5">> }

HWVHostTables ==
    { <<[Host |-> N_esx01, ESXVersion |-> v, Speed |-> 2400]>> : v \in HWESXVersions }

HWVInfoTables ==
    UNION { { [k \in 1..n |-> [VM |-> CellNames[k], Datacenter |-> "A",
                               Host |-> f[k].Host, HWVersion |-> f[k].HWVersion]] :
              f \in [1..n -> [Host : {N_esx01, N_gone01},
                              HWVersion : {<<"v", "m", "x", "-", "1", "0">>, <<"1", "5">>, <<"v", "m", "x", "-", "2", "1">>}]] } :
            n \in 0..MaxHWRows }

\* the last position of the run of digits that starts at p
DigitRunEnd(s, p) ==
    CHOOSE x \in p..Len(s) :
        /\ \A k \in p..x : IsDigit(s[k])
        /\ (x = Len(s) \/ ~IsDigit(s[x + 1]))

\* re.search(r'(\d+)\.(\d+)(?:\.(\d+))?', s): <<major, minor, update>> of the
\* leftmost match, update 0 without the third group; <<>> without a match
ParseESXi(s) ==
    LET starts == {p \in 1..Len(s) :
                      /\ IsDigit(s[p])
                      /\ DigitRunEnd(s, p) + 2 <= Len(s)
                      /\ s[DigitRunEnd(s, p) + 1] = "."
                      /\ IsDigit(s[DigitRunEnd(s, p) + 2])}
    IN  IF starts = {} THEN <<>>
        ELSE LET p == FirstOf(starts)
                 q == DigitRunEnd(s, p)
                 r == DigitRunEnd(s, q + 2)
                 third == r + 2 <= Len(s) /\ s[r + 1] = "." /\ IsDigit(s[r + 2])
             IN  << NumberAt(s, p, q), NumberAt(s, q + 2, r),
                    IF third THEN NumberAt(s, r + 2, DigitRunEnd(s, r + 2))
                    ELSE 0 >>

\* the three elif branches of the loop over esxi_hw_map
EntryApplies(v, req) ==
    \/ v[1] > req[1]
    \/ v[1] = req[1] /\ v[2] > req[2]
    \/ v[1] = req[1] /\ v[2] = req[2] /\ v[3] >= req[3]

\* the loop over esxi_hw_map from entry k on, max_hw so far
RECURSIVE MaxHWFrom(_, _, _)
MaxHWFrom(v, k, max_hw) ==
    IF k > Len(esxi_hw_map) THEN max_hw
    ELSE MaxHWFrom(v, k + 1,
                   IF EntryApplies(v, esxi_hw_map[k][1])
                   THEN Max2(max_hw, esxi_hw_map[k][2]) ELSE max_hw)

get_max_hw_for_esxi(version_str) ==
    IF ParseESXi(version_str) = <<>> THEN 13
    ELSE MaxHWFrom(ParseESXi(version_str), 1, 13)

\* host_esxi.get(vm_host, {'max_hw': 13})['max_hw']
host_esxi(vhost, vm_host) ==
    LET hits == {k \in 1..Len(vhost) : vhost[k].Host = vm_host}
    IN  IF hits = {} THEN 13
        ELSE get_max_hw_for_esxi(
                 vhost[CHOOSE k \in hits : \A j \in hits : j <= k].ESXVersion)

\* app.py 1002-1023: the loop over vInfo
app_old_hw_version(vinfo, vhost) ==
    Flatten([k \in 1..Len(vinfo) |->
        LET vm == vinfo[k]
            max_supported == host_esxi(vhost, vm.Host)
        IN  IF /\ \E p \in 1..Len(vm.HWVersion) : IsDigit(vm.HWVersion[p])
               /\ FirstNumber(vm.HWVersion) < max_supported
            THEN <<[HWFinding(vm, max_supported) EXCEPT !.datacenter = NoKey]>>
            ELSE <<>>])

call_app_old_hw_version ==
    /\ call_args.fn = "app_old_hw_version"
    /\ call_pc = "ready"
    /\ call_result' = app_old_hw_version(call_args.vinfo, call_args.vhost)
    /\ call_pc' = "returned"
    /\ UNCHANGED <<call_args, drVars, reloadVars, rsVars>>

call_routes_old_hw_version ==
    /\ call_args.fn = "routes_old_hw_version"
    /\ call_pc = "ready"
    /\ call_result' = check_old_hw(call_args.vinfo, call_args.vhost)
    /\ call_pc' = "returned"
    /\ UNCHANGED <<call_args, drVars, reloadVars, rsVars>>

\* vhost_versions of routes/reports.py api_export_pdf: 13 for '6.5', 14 for
\* '6.7', 19 for '7.0' and '8.0', else 17; check_old_hw reads it with
\* vhost_versions.get(vm_host, 13)
vhost_versions(vhost, vm_host) ==
    LET hits == {k \in 1..Len(vhost) : vhost[k].Host = vm_host}
    IN  IF hits = {} THEN 13
        ELSE LET version_str ==
                    vhost[CHOOSE k \in hits : \A j \in hits : j <= k].ESXVersion
             IN  IF Contains(version_str, <<"6", ".", "5">>) THEN 13
                 ELSE IF Contains(version_str, <<"6", ".", "7">>) THEN 14
                 ELSE IF \/ Contains(version_str, <<"7", ".", "0">>)
                         \/ Contains(version_str, <<"8", ".", "0">>)
                 THEN 19
                 ELSE 17

\* check_old_hw(vinfo, vhost_versions) as api_export_pdf calls it
export_pdf_old_hw(vinfo, vhost) ==
    Flatten([k \in 1..Len(vinfo) |->
        LET vm == vinfo[k]
            max_hw == vhost_versions(vhost, vm.Host)
            curr_hw == FirstNumber(vm.HWVersion)
        IN  IF curr_hw > 0 /\ curr_hw < max_hw
            THEN <<HWFinding(vm, max_hw)>> ELSE <<>>])

\* GET /api/reports/pdf/all and /pdf/rightsizing of routes/reports.py: the
\* OLD_HW_VERSION findings handed to generate_optimization_pdf
call_api_export_pdf ==
    /\ call_args.fn = "api_export_pdf"
    /\ call_pc = "ready"
    /\ call_result' = export_pdf_old_hw(call_args.vinfo, call_args.vhost)
    /\ call_pc' = "returned"
    /\ UNCHANGED <<call_args, drVars, reloadVars, rsVars>>

NextHW ==
    \/ call_app_old_hw_version
    \/ call_routes_old_hw_version
    \/ call_api_export_pdf

\* vInfo and vHost, before the hardware version check of a handler
InitHW ==
    /\ dr_vinfo = <<>>
    /\ dr_pc = "idle"
    /\ dr_i = 0
    /\ matched_pairs = <<>>
    /\ unmatched_replicas = <<>>
    /\ files_epoch = 1
    /\ db_tables = SheetNames
    /\ db_rows = [t \in SheetNames |-> <<1>>]
    /\ data_cache = [c \in CacheKeys |-> 0]
    /\ rl_pc = [r \in Reloaders |-> "idle"]
    /\ rl_tables = [r \in Reloaders |-> <<>>]
    /\ rl_xls = [r \in Reloaders |-> 0]
    /\ rl_k = [r \in Reloaders |-> 0]
    /\ rl_started = 0
    /\ rd_pc = [q \in Requests |-> "idle"]
    /\ rd_kind = [q \in Requests |-> "api_rightsizing"]
    /\ rd_k = [q \in Requests |-> 0]
    /\ rd_snap = [q \in Requests |-> [t \in SheetNames |-> NotRead]]
    /\ rs_tables = EmptySnapshot
    /\ rs_pc = "idle"
    /\ rs_endpoint = "none"
    /\ recommendations = <<>>
    /\ rs_response = <<>>
    /\ rs_history = <<>>
    /\ \E fn \in {"app_old_hw_version", "routes_old_hw_version", "api_export_pdf"},
          vinfo \in HWVInfoTables, vhost \in HWVHostTables :
          call_args = [fn |-> fn, vinfo |-> vinfo, vhost |-> vhost]
    /\ call_pc = "ready"
    /\ call_result = <<>>

SpecHW == InitHW /\ [][NextHW]_vars

\* (major, minor, update) a at most b
VersionLeq(a, b) ==
    \/ a[1] < b[1]
    \/ a[1] = b[1] /\ a[2] < b[2]
    \/ a[1] = b[1] /\ a[2] = b[2] /\ a[3] <= b[3]

\* the table value of the greatest table entry that does not exceed v
MostSpecificHW(v) ==
    LET fits == {k \in 1..Len(esxi_hw_map) : VersionLeq(esxi_hw_map[k][1], v)}
        best == CHOOSE k \in fits :
                   \A j \in fits : VersionLeq(esxi_hw_map[j][1], esxi_hw_map[k][1])
    IN  esxi_hw_map[best][2]

\* C20: for a VM on the host of vHost, an OLD_HW_VERSION finding is emitted
\* exactly when the VM's hardware version is lower than the table value of
\* the most specific table entry not exceeding the host's ESXi version, and
\* the finding recommends vmx-<that value> (8.0.1: 21, 7.0.0: 17, 6.0.0: 11,
\* 5.5: 10).
C20_MaxHWIsMostSpecificEntry ==
    (call_args.fn \in {"app_old_hw_version", "routes_old_hw_version"}
        /\ call_pc = "returned") =>
        LET expected == MostSpecificHW(ParseESXi(call_args.vhost[1].ESXVersion))
        IN  \A k \in 1..Len(call_args.vinfo) :
                LET vm == call_args.vinfo[k]
                    found == {j \in 1..Len(call_result) : call_result[j].vm = vm.VM}
                IN  vm.Host = call_args.vhost[1].Host =>
                        IF FirstNumber(vm.HWVersion) < expected
                        THEN /\ Cardinality(found) = 1
                             /\ \A j \in found :
                                   call_result[j].recommended_value = expected
                        ELSE found = {}

\* C21: once no reload is in flight, every inventory table holds exactly the
\* rows of one reading of the workbook: each sheet's row once, all of the
\* same epoch, none of an earlier one.
C21_TablesWhollyReplaced ==
    (\A r \in Reloaders : rl_pc[r] = "idle") =>
        \E e \in 1..MaxEpoch : \A t \in SheetNames : db_rows[t] = <<e>>

\* C22: over a store that has the three tables, api_risks answers with the
\* risks of its checks whatever the advisory provider does, never with an
\* error; when the provider fails or is not configured the advisory field is
\* a neutral text, not the text of an exception.
C22_AdvisoryNeverBlocksRisks ==
    (/\ call_args.fn = "api_risks" /\ call_pc = "returned"
     /\ \A t \in SheetNames : call_args.store[t].present) =>
        /\ call_result.status = 200
        /\ call_result.risks =
              check_os_risks(call_args.store.vInfo.rows)
                 \o check_host_risks(call_args.store.vHost.rows)
                 \o check_vhealth_risks(call_args.store.vHealth.rows)
        /\ call_args.provider # "answers" =>
              call_result.ai_insight \in {DefaultInsight, KeyNotFoundText}

\* the two findings have the same sort key: severity rank and savings
SameSortKey(a, b) ==
    /\ SeverityRank(a.severity) = SeverityRank(b.severity)
    /\ a.potential_savings = b.potential_savings

\* C23: the ranking sort is stable: two returned findings of the same
\* severity rank and the same potential_savings are in the order in which the
\* checks emitted them.
C23_TiesKeepEmissionOrder ==
    (rs_pc = "done" /\ rs_endpoint = "app") =>
        \A j, k \in 1..Len(rs_response) :
            (j < k /\ SameSortKey(rs_response[j], rs_response[k]))
                => rs_response[j].seq < rs_response[k].seq

C23_Witness ==
    /\ rs_pc = "done" /\ rs_endpoint = "app"
    /\ \E j, k \in 1..Len(rs_response) :
          /\ j < k /\ SameSortKey(rs_response[j], rs_response[k])
          /\ rs_response[j].type # rs_response[k].type
          /\ \E i \in 1..Len(rs_response) : ~SameSortKey(rs_response[i], rs_response[j])

(***************************************************************************)
(* get_base_name on bounded names (SpecBase)                               *)
(***************************************************************************)

BaseStems == { <<"a","p","p">>, <<"A","p","p">>, <<"w","e","b">>, <<"D","B">> }

\* what follows the stem: nothing, a pattern of the list, or an upper-case one
BaseMarkers ==
    {<<>>, <<"_","D","R">>, <<"-","R","e","p">>}
        \cup {REPLICA_PATTERNS[k] : k \in 1..Len(REPLICA_PATTERNS)}

BaseNames == {s \o m \o n : s \in BaseStems, m \in BaseMarkers, n \in BaseMarkers}

call_get_base_name ==
    /\ call_args.fn = "get_base_name"
    /\ call_pc = "ready"
    /\ call_result' = get_base_name(call_args.vm_name)
    /\ call_pc' = "returned"
    /\ UNCHANGED <<call_args, drVars, reloadVars, rsVars>>

NextBase == call_get_base_name

\* one VM name, before get_base_name is applied to it
InitBase ==
    /\ dr_vinfo = <<>>
    /\ dr_pc = "idle"
    /\ dr_i = 0
    /\ matched_pairs = <<>>
    /\ unmatched_replicas = <<>>
    /\ files_epoch = 1
    /\ db_tables = SheetNames
    /\ db_rows = [t \in SheetNames |-> <<1>>]
    /\ data_cache = [c \in CacheKeys |-> 0]
    /\ rl_pc = [r \in Reloaders |-> "idle"]
    /\ rl_tables = [r \in Reloaders |-> <<>>]
    /\ rl_xls = [r \in Reloaders |-> 0]
    /\ rl_k = [r \in Reloaders |-> 0]
    /\ rl_started = 0
    /\ rd_pc = [q \in Requests |-> "idle"]
    /\ rd_kind = [q \in Requests |-> "api_rightsizing"]
    /\ rd_k = [q \in Requests |-> 0]
    /\ rd_snap = [q \in Requests |-> [t \in SheetNames |-> NotRead]]
    /\ rs_tables = EmptySnapshot
    /\ rs_pc = "idle"
    /\ rs_endpoint = "none"
    /\ recommendations = <<>>
    /\ rs_response = <<>>
    /\ rs_history = <<>>
    /\ \E vm_name \in BaseNames : call_args = [fn |-> "get_base_name", vm_name |-> vm_name]
    /\ call_pc = "ready"
    /\ call_result = <<>>

SpecBase == InitBase /\ [][NextBase]_vars

\* the patterns of the list that occur in the lowercased name
MatchingPatterns(vm_name) ==
    {k \in 1..Len(REPLICA_PATTERNS) : Contains(Lower(vm_name), REPLICA_PATTERNS[k])}

\* r is s with copies of p taken out and every other character kept in place
RECURSIVE IsStripOf(_, _, _)
IsStripOf(r, s, p) ==
    \/ r = s
    \/ \E k \in 0..(Len(s) - Len(p)) :
          /\ SubSeq(s, k + 1, k + Len(p)) = p
          /\ k <= Len(r)
          /\ SubSeq(r, 1, k) = SubSeq(s, 1, k)
          /\ IsStripOf(SubSeq(r, k + 1, Len(r)), SubSeq(s, k + Len(p) + 1, Len(s)), p)

\* C24: get_base_name returns the lowercased name when no pattern of the list
\* occurs in it; otherwise the lowercased name without the pattern that comes
\* first in the list among those occurring in it, every character outside
\* that marker kept, in place.
C24_FirstMatchingPatternStripped ==
    (call_args.fn = "get_base_name" /\ call_pc = "returned") =>
        LET name == Lower(call_args.vm_name)
            hits == MatchingPatterns(call_args.vm_name)
        IN  IF hits = {} THEN call_result = name
            ELSE LET first == CHOOSE k \in hits : \A j \in hits : k <= j
                 IN  /\ Len(call_result) < Len(name)
                     /\ IsStripOf(call_result, name, REPLICA_PATTERNS[first])
                     /\ ~Contains(call_result, REPLICA_PATTERNS[first])

\* a name holding two patterns of the list, the later one of the list first
C24_Witness ==
    /\ call_args.fn = "get_base_name" /\ call_pc = "returned"
    /\ Cardinality(MatchingPatterns(call_args.vm_name)) >= 2
    /\ Contains(call_result, <<"-","d","r">>)
    /\ call_args.vm_name # Lower(call_args.vm_name)

(***************************************************************************)
(* api_dr_analysis after match_replicas: the unprotected VMs               *)
(***************************************************************************)

\* set(p['production_vm'] for p in matched_pairs)
replicated_prod_names == {matched_pairs[k].production_vm : k \in 1..Len(matched_pairs)}

\* production_vms[~production_vms['VM'].isin(replicated_prod_names)], as the
\* row numbers of vInfo
unprotected_vms ==
    SelectSeq(production_vms, LAMBDA r : dr_vinfo[r].VM \notin replicated_prod_names)

\* summary.unprotected_vm_count
unprotected_vm_count == Len(unprotected_vms)

\* summary.total_production_vms
total_production_vms == Len(production_vms)

\* the vInfo rows that are the production member of a matched pair
PairedProductionRows == {matched_pairs[k].prod_row : k \in 1..Len(matched_pairs)}

\* C25: when api_dr_analysis answers, the unprotected rows are exactly the
\* production rows that are the production member of no matched pair, and
\* their number plus the number of distinct paired production rows is
\* total_production_vms.
C25_UnprotectedAreUnpairedRows ==
    dr_pc = "done" =>
        /\ {unprotected_vms[k] : k \in 1..Len(unprotected_vms)}
              = {production_vms[k] : k \in 1..Len(production_vms)} \ PairedProductionRows
        /\ unprotected_vm_count + Cardinality(PairedProductionRows) = total_production_vms

\* the vInfo rows for which match_replicas has made an entry, as a sequence
OutputRows ==
    [k \in 1..Len(matched_pairs) |-> matched_pairs[k].replica_row]
        \o [k \in 1..Len(unmatched_replicas) |-> unmatched_replicas[k].row]

\* C26: at every point of match_replicas each powered-off candidate row has
\* at most one entry in matched_pairs and unmatched_replicas together, every
\* entry is that of a candidate the loop has visited, and the two lists hold
\* no more entries than there are candidates.
C26_OneEntryPerCandidate ==
    /\ \A j, k \in 1..Len(OutputRows) : j # k => OutputRows[j] # OutputRows[k]
    /\ \A k \in 1..Len(OutputRows) :
          \E i \in 1..Len(replica_candidates) :
              replica_candidates[i] = OutputRows[k] /\ (dr_pc = "done" \/ i < dr_i)
    /\ Len(matched_pairs) + Len(unmatched_replicas) <= Len(replica_candidates)

\* two candidates, one paired and one recorded as unmatched
C26_Witness ==
    /\ dr_pc = "done"
    /\ Len(replica_candidates) = 2
    /\ Len(matched_pairs) = 1
    /\ Len(unmatched_replicas) = 1

(***************************************************************************)
(* routes/core.py, api_notes, next to reloads (SpecNotes).  The table      *)
(* custom_notes exists from the init_db of the start-up on; db_rows holds  *)
(* its rows under its name.                                                *)
(***************************************************************************)

NoteTypes == {"vm", "host"}

NoteNames == {"web01"}

NoteContents == {"first", "second"}

NoteKeys == NoteTypes \X NoteNames

\* the rows of custom_notes with the given key
NoteRows(target_type, target_name) ==
    {k \in 1..Len(db_rows["custom_notes"]) :
        /\ db_rows["custom_notes"][k].target_type = target_type
        /\ db_rows["custom_notes"][k].target_name = target_name}

\* INSERT ... ON CONFLICT(target_type, target_name) DO UPDATE SET note_content
Upsert(rows, target_type, target_name, note_content) ==
    IF \E k \in 1..Len(rows) :
          rows[k].target_type = target_type /\ rows[k].target_name = target_name
    THEN [k \in 1..Len(rows) |->
            IF rows[k].target_type = target_type /\ rows[k].target_name = target_name
            THEN [rows[k] EXCEPT !.note_content = note_content]
            ELSE rows[k]]
    ELSE Append(rows, [target_type |-> target_type, target_name |-> target_name,
                       note_content |-> note_content])

\* POST /api/notes: a missing key field violates NOT NULL and a missing table
\* raises; both are answered 500 and nothing is written
api_notes_post(target_type, target_name, note_content) ==
    /\ IF /\ "custom_notes" \in db_tables
          /\ target_type # NullCell
          /\ target_name # NullCell
       THEN /\ db_rows' = [db_rows EXCEPT !["custom_notes"] =
                              Upsert(db_rows["custom_notes"], target_type, target_name, note_content)]
            /\ call_args' = [fn |-> "api_notes", method |-> "POST",
                             target_type |-> target_type, target_name |-> target_name,
                             posted |-> [call_args.posted EXCEPT
                                           ![<<target_type, target_name>>] = note_content]]
            /\ call_result' = [status |-> 200, note_content |-> note_content]
       ELSE /\ call_args' = [fn |-> "api_notes", method |-> "POST",
                             target_type |-> target_type, target_name |-> target_name,
                             posted |-> call_args.posted]
            /\ call_result' = [status |-> 500, note_content |-> ""]
            /\ UNCHANGED db_rows
    /\ call_pc' = "returned"
    /\ UNCHANGED <<files_epoch, db_tables, data_cache, rlVars, rdVars, drVars, rsVars>>

\* GET /api/notes: 400 when a parameter is missing or empty, else the row of
\* the key that fetchone gives, '' when there is none
api_notes_get(target_type, target_name) ==
    /\ "custom_notes" \in db_tables
    /\ call_args' = [fn |-> "api_notes", method |-> "GET",
                     target_type |-> target_type, target_name |-> target_name,
                     posted |-> call_args.posted]
    /\ call_result' =
         IF target_type = "" \/ target_name = ""
         THEN [status |-> 400, note_content |-> ""]
         ELSE LET hits == NoteRows(target_type, target_name)
              IN  IF hits = {} THEN [status |-> 200, note_content |-> ""]
                  ELSE [status |-> 200,
                        note_content |->
                           db_rows["custom_notes"][CHOOSE k \in hits :
                                                      \A j \in hits : k <= j].note_content]
    /\ call_pc' = "returned"
    /\ UNCHANGED <<storeVars, rlVars, rdVars, drVars, rsVars>>

NextNotes ==
    \/ \E target_type \in NoteTypes \cup {NullCell}, target_name \in NoteNames,
          note_content \in NoteContents :
          api_notes_post(target_type, target_name, note_content)
    \/ \E target_type \in NoteTypes \cup {""}, target_name \in NoteNames :
          api_notes_get(target_type, target_name)
    \/ \E r \in Reloaders, rebuild_db \in BOOLEAN : api_reload(r, rebuild_db)
    \/ \E r \in Reloaders : init_db_drop(r)
    \/ \E r \in Reloaders : init_db_open(r)
    \/ \E r \in Reloaders : init_db_sheet(r)
    \/ \E r \in Reloaders : init_db_finish(r)

\* the store after the start-up, no note saved yet
InitNotes ==
    /\ dr_vinfo = <<>>
    /\ dr_pc = "idle"
    /\ dr_i = 0
    /\ matched_pairs = <<>>
    /\ unmatched_replicas = <<>>
    /\ files_epoch = 1
    /\ db_tables = SheetNames \cup {"custom_notes"}
    /\ db_rows = [t \in SheetNames \cup {"custom_notes"} |->
                    IF t = "custom_notes" THEN <<>> ELSE <<1>>]
    /\ data_cache = [c \in CacheKeys |-> 0]
    /\ rl_pc = [r \in Reloaders |-> "idle"]
    /\ rl_tables = [r \in Reloaders |-> <<>>]
    /\ rl_xls = [r \in Reloaders |-> 0]
    /\ rl_k = [r \in Reloaders |-> 0]
    /\ rl_started = 0
    /\ rd_pc = [q \in Requests |-> "idle"]
    /\ rd_kind = [q \in Requests |-> "api_rightsizing"]
    /\ rd_k = [q \in Requests |-> 0]
    /\ rd_snap = [q \in Requests |-> [t \in SheetNames |-> NotRead]]
    /\ rs_tables = EmptySnapshot
    /\ rs_pc = "idle"
    /\ rs_endpoint = "none"
    /\ recommendations = <<>>
    /\ rs_response = <<>>
    /\ rs_history = <<>>
    /\ call_args = [fn |-> "api_notes", method |-> "none",
                    target_type |-> "", target_name |-> "",
                    posted |-> [key \in NoteKeys |-> ""]]
    /\ call_pc = "ready"
    /\ call_result = <<>>

SpecNotes == InitNotes /\ [][NextNotes]_vars

C28_PdfFromRightsizingList ==
    (call_args.fn = "api_export_pdf" /\ call_pc = "returned") =>
        call_result = check_old_hw(call_args.vinfo, call_args.vhost)

(***************************************************************************)
(* ai_utils.py, get_remediation_advice and its cache file (SpecAdvice).    *)
(* A message is a sequence of words; call_result holds the advice returned *)
(* and the content of remediation_cache.json after the call.               *)
(***************************************************************************)

AdviceMessages ==
    { <<>>, <<"ping", "10.0.0.1">>, <<"ping", "10.0.0.2">>, <<"disk", "full">> }

\* the words that the regular expressions of normalize_message replace
IPWords == {"10.0.0.1", "10.0.0.2"}

\* normalize_message: addresses become [IP]
normalize_message(message) ==
    [k \in 1..Len(message) |-> IF message[k] \in IPWords THEN "[IP]" ELSE message[k]]

NormalizedMessages == {normalize_message(m) : m \in AdviceMessages \ {<<>>}}

\* advice and "error" not in advice.lower()
MayBeCached(advice) == advice # <<>> /\ ~Contains(Lower(advice), <<"e", "r", "r", "o", "r">>)

\* get_remediation_advice over the cache file as it is: the advice returned
\* (<<>> for None) and the cache file afterwards, <<>> for a key it lacks
get_remediation_advice(message, cache, provider) ==
    IF message = <<>> THEN [advice |-> <<>>, cache |-> cache]
    ELSE LET normalized_message == normalize_message(message)
             advice == call_grok(provider)
         IN  IF cache[normalized_message] # <<>>
             THEN [advice |-> cache[normalized_message], cache |-> cache]
             ELSE IF MayBeCached(advice)
             THEN [advice |-> advice,
                   cache |-> [cache EXCEPT ![normalized_message] = advice]]
             ELSE [advice |-> <<>>, cache |-> cache]

call_get_remediation_advice(message, provider) ==
    /\ call_args.fn = "get_remediation_advice"
    /\ call_args' = [fn |-> "get_remediation_advice", message |-> message,
                     provider |-> provider]
    /\ call_result' = get_remediation_advice(message, call_result.cache, provider)
    /\ call_pc' = "returned"
    /\ UNCHANGED <<drVars, reloadVars, rsVars>>

NextAdvice ==
    \E message \in AdviceMessages, provider \in ProviderOutcomes :
        call_get_remediation_advice(message, provider)

\* no advice asked for yet, the cache file empty
InitAdvice ==
    /\ dr_vinfo = <<>>
    /\ dr_pc = "idle"
    /\ dr_i = 0
    /\ matched_pairs = <<>>
    /\ unmatched_replicas = <<>>
    /\ files_epoch = 1
    /\ db_tables = SheetNames
    /\ db_rows = [t \in SheetNames |-> <<1>>]
    /\ data_cache = [c \in CacheKeys |-> 0]
    /\ rl_pc = [r \in Reloaders |-> "idle"]
    /\ rl_tables = [r \in Reloaders |-> <<>>]
    /\ rl_xls = [r \in Reloaders |-> 0]
    /\ rl_k = [r \in Reloaders |-> 0]
    /\ rl_started = 0
    /\ rd_pc = [q \in Requests |-> "idle"]
    /\ rd_kind = [q \in Requests |-> "api_rightsizing"]
    /\ rd_k = [q \in Requests |-> 0]
    /\ rd_snap = [q \in Requests |-> [t \in SheetNames |-> NotRead]]
    /\ rs_tables = EmptySnapshot
    /\ rs_pc = "idle"
    /\ rs_endpoint = "none"
    /\ recommendations = <<>>
    /\ rs_response = <<>>
    /\ rs_history = <<>>
    /\ call_args = [fn |-> "get_remediation_advice", message |-> <<>>,
                    provider |-> "answers"]
    /\ call_pc = "ready"
    /\ call_result = [advice |-> <<>>, cache |-> [m \in NormalizedMessages |-> <<>>]]

SpecAdvice == InitAdvice /\ [][NextAdvice]_vars

\* C29: the remediation cache holds only advice of provider calls that
\* succeeded: never the missing-key message nor the text of an exception.
C29_OnlySuccessfulAdviceCached ==
    call_args.fn = "get_remediation_advice" =>
        \A m \in NormalizedMessages :
            call_result.cache[m] \in {<<>>, AdviceText}

(***************************************************************************)
(* utils/db.py, load_excel_data and clear_cache (SpecCache).  The file has *)
(* a new modification time after every change; a frame is represented by   *)
(* the modification time the file had when it was read.  call_args.since   *)
(* records, per cache key, what has happened since the last load of it.    *)
(***************************************************************************)

MaxMtime == 3

\* the sheets asked for, of the one workbook
CachedSheets == {"vInfo", "vSnapshot"}

\* data_cache.get(cache_key) when the key is not in the dict
NoEntry == [mtime |-> 0, df |-> 0]

\* a test that does not look at the modification time
CacheHitAnyMtime(cached, mtime) == cached # NoEntry

\* cached and cached.get('mtime') == mtime
CacheHit(cached, mtime) == cached # NoEntry /\ cached.mtime = mtime

\* the workbook in DATA_DIR is written again
touch_file ==
    /\ files_epoch < MaxMtime
    /\ files_epoch' = files_epoch + 1
    /\ call_args' = [call_args EXCEPT
                       !.since = [c \in CachedSheets |-> call_args.since[c] \cup {"file_change"}]]
    /\ UNCHANGED <<db_tables, db_rows, data_cache, rlVars, rdVars, drVars, rsVars,
                   call_pc, call_result>>

\* clear_cache(), as api_reload calls it: data_cache.clear()
clear_cache ==
    /\ data_cache' = [c \in CachedSheets |-> NoEntry]
    /\ call_args' = [call_args EXCEPT
                       !.since = [c \in CachedSheets |-> call_args.since[c] \cup {"clear_cache"}]]
    /\ UNCHANGED <<files_epoch, db_tables, db_rows, rlVars, rdVars, drVars, rsVars,
                   call_pc, call_result>>

\* load_excel_data(filename, sheet_name): the frame returned and whether the
\* file was read for it
call_load_excel_data(sheet_name) ==
    /\ LET mtime == files_epoch
           cached == data_cache[sheet_name]
       IN  IF CacheHit(cached, mtime)
           THEN /\ call_result' = [df |-> cached.df, read_excel |-> FALSE]
                /\ UNCHANGED data_cache
           ELSE /\ call_result' = [df |-> files_epoch, read_excel |-> TRUE]
                /\ data_cache' = [data_cache EXCEPT
                                    ![sheet_name] = [mtime |-> mtime, df |-> files_epoch]]
    /\ call_args' = [fn |-> "load_excel_data", sheet_name |-> sheet_name,
                     mtime |-> files_epoch,
                     since_at_call |-> call_args.since[sheet_name],
                     since |-> [call_args.since EXCEPT ![sheet_name] = {}]]
    /\ call_pc' = "returned"
    /\ UNCHANGED <<files_epoch, db_tables, db_rows, rlVars, rdVars, drVars, rsVars>>

NextCache ==
    \/ touch_file
    \/ clear_cache
    \/ \E sheet_name \in CachedSheets : call_load_excel_data(sheet_name)

\* the process has started, nothing loaded yet
InitCache ==
    /\ dr_vinfo = <<>>
    /\ dr_pc = "idle"
    /\ dr_i = 0
    /\ matched_pairs = <<>>
    /\ unmatched_replicas = <<>>
    /\ files_epoch = 1
    /\ db_tables = SheetNames
    /\ db_rows = [t \in SheetNames |-> <<1>>]
    /\ data_cache = [c \in CachedSheets |-> NoEntry]
    /\ rl_pc = [r \in Reloaders |-> "idle"]
    /\ rl_tables = [r \in Reloaders |-> <<>>]
    /\ rl_xls = [r \in Reloaders |-> 0]
    /\ rl_k = [r \in Reloaders |-> 0]
    /\ rl_started = 0
    /\ rd_pc = [q \in Requests |-> "idle"]
    /\ rd_kind = [q \in Requests |-> "api_rightsizing"]
    /\ rd_k = [q \in Requests |-> 0]
    /\ rd_snap = [q \in Requests |-> [t \in SheetNames |-> NotRead]]
    /\ rs_tables = EmptySnapshot
    /\ rs_pc = "idle"
    /\ rs_endpoint = "none"
    /\ recommendations = <<>>
    /\ rs_response = <<>>
    /\ rs_history = <<>>
    /\ call_args = [fn |-> "load_excel_data", sheet_name |-> "vInfo", mtime |-> 0,
                    since_at_call |-> {},
                    since |-> [c \in CachedSheets |-> {"clear_cache"}]]
    /\ call_pc = "ready"
    /\ call_result = [df |-> 0, read_excel |-> FALSE]

SpecCache == InitCache /\ [][NextCache]_vars

\* C30: the frame a load returns was read when the file had the modification
\* time it has at the call; the load reads the file when the file has changed
\* or the cache has been cleared since the last load of the key, and returns
\* the cached frame without reading when neither has happened.
C30_LoadReturnsCurrentFrame ==
    (call_args.fn = "load_excel_data" /\ call_pc = "returned") =>
        /\ call_result.df = call_args.mtime
        /\ call_result.read_excel <=> call_args.since_at_call # {}

\* a load answered from the cache after an earlier load of the key had to
\* read the file again because it had changed
C30_Witness ==
    /\ call_pc = "returned"
    /\ ~call_result.read_excel
    /\ call_result.df = 2
    /\ call_args.since_at_call = {}
    /\ files_epoch = 2
====
